---- MODULE Spec2Model ----
(***************************************************************************)
(* Verification model of the chart widget's invalidation/frame pipeline    *)
(* and of the drawing-annotation subsystem (trendlines and Fibonacci       *)
(* retracements): ChartWidget, ToolbarWidget, PaneWidget and ChartModel.   *)
(*                                                                         *)
(* Optional values (T | null) are sets: {} is null, {v} is the value v.    *)
(***************************************************************************)
EXTENDS Integers, Sequences, FiniteSets, TLC

\* ------------------------------------------------------------------ bounds
\* Saturation point of the history counters and of the browser's callback queue.
MaxCount == 3
\* Largest number of data points the time scale holds.
MaxPoints == 2
\* Largest number of annotations committed in one behaviour.
MaxAnnotations == 2
\* Panes of the model and series on them.
MaxPanes == 2
MaxSeries == 2
\* Wall-clock reading (seconds) when the chart is constructed.
ClockStart == 1000
\* Largest pixel height used for pointer y coordinates / top price of the scale.
MaxPrice == 100
\* masks followed from the invalidate handler to their paint, per behaviour
MaxMasks == 3
\* time-scale invalidations a pending mask holds
MaxOps == 2
MaskIds == 0..(MaxMasks - 1)

\* --------------------------------------------------------------- constants
\* InvalidationLevel: None < Cursor < Light < Full.
LevelNone == 0
LevelCursor == 1
LevelLight == 2
LevelFull == 3
\* CrosshairMode.Normal (free movement, no snapping).
CrosshairModeNormal == 0
\* The modes the host's options ask for: Normal and Magnet.
CrosshairModes == 0..1

Val(opt) == CHOOSE v \in opt : TRUE
Cap(n) == IF n > MaxCount THEN MaxCount ELSE n
Min(a, b) == IF a <= b THEN a ELSE b
Max(a, b) == IF a >= b THEN a ELSE b

VARIABLES
    \* ChartWidget: frame scheduling
    invalidateMask,      \* {} or {level}: the pending mask
    drawPlanned,         \* _drawPlanned
    drawRafId,           \* _drawRafId: 0 or a non-zero handle
    rafQueue,            \* frame callbacks the browser holds for this widget
    destroyed,           \* destroy() has run
    reqSinceFrame,       \* history: frames requested since the last callback ran
    invSinceFrame,       \* history: invalidations delivered since the last callback ran
    \* ChartWidget: drawing tools
    isDrawingTrendline, trendlineStartPoint, trendlinePreviewEnd,
    isDrawingFibonacci, fibonacciStartPoint, fibonacciPreviewEnd,
    originalCrosshairMode,
    \* ToolbarWidget
    tbTrendlineActive, tbFibonacciActive,
    \* ChartModel
    mIsDrawingTrendline, mTrendlineStartPoint, mTrendlinePreviewEnd,
    crosshairMode,       \* options().crosshair.mode
    showCenterDot,       \* crosshair._showCenterDot
    currentSymbol, trendlinesBySymbol, fibonacciBySymbol,
    savedTrendlines, savedFibonacci,   \* last payload handed to the external store
    \* the external store: whether its operations fail, what the IndexedDB record
    \* and the localStorage item hold, the load request the constructor has
    \* outstanding, and whether the running call has an exception in flight
    storeFails, storedTrendlines, storedFibonacci, pendingLoad, thrown,
    \* ChartModel._panes (each pane with the series it holds), _paneDataMap and
    \* _nextPaneId
    panes, paneDataMap, nextPaneId,
    \* CrosshairPaneView: _invalidated, _rendererData, what the renderer last drew
    crosshairView,
    \* history: {} or the mask the last frame consumed and what it painted of each pane widget
    lastPaint,
    \* history: the masks handed to the invalidate handler since the last frame
    submitted,
    \* InvalidateMask._invalidatedPanes of the pending mask: for each pane index {} or {[level, autoScale]}
    pendingPanes,
    \* the length of ChartWidget._paneSeparators
    paneSeparators,
    \* ChartWidget._paneWidgets: for each pane widget the identity of the Pane it is bound to (paneWidget.state())
    paneWidgets,
    \* options.levels of the Fibonacci retracement with each id (FibonacciRetracement._options.levels)
    fibonacciLevels,
    \* the symbol whose annotation maps the pane widget holds (PaneWidget._trendlines, _fibonacciRetracements), handed over by the last Light or Full draw
    paneSymbol,
    \* the scroll in progress on the time scale: {} or {[start, to]} set by startScroll / scrollTo
    timeScroll,
    \* PaneWidget._isScrolling
    isScrolling,
    \* PaneWidget._startScrollingPos: {} (null) or the pointer position kept by the first pressed move
    startScrollingPos,
    \* history: the handler calls whose masks the pending mask has merged
    pendingIds,
    \* the time-scale invalidations of the pending mask, in the order of the mask's list
    pendingOps,
    \* ChartModel._options.leftPriceScale / rightPriceScale
    scaleOptions,
    \* process.env.NODE_ENV === 'development' of the build
    development,
    nextId,              \* stands for the Date.now()/Math.random() id suffix
    \* TimeScale, default PriceScale of the pane, wall clock (seconds)
    timeScale, firstValue, now,
    \* history: the toolbar press or pane click just handled ({} after any other
    \* step), and the crosshair mode found by the latest tool activation
    lastInput, modeBeforeActivation,
    \* PaneWidget: _trendlineSelection and _fibonacciSelection
    trendlineSelection, fibonacciSelection,
    \* the last evaluation of the pixel-to-time paths and of the hit tests
    extrapolated, hit,
    \* the last evaluation of the Fibonacci levels of one retracement
    levels,
    \* history: the call of the model's interface just made ({} after any other
    \* step), and per symbol the annotations added under it and not removed
    lastCall, expected,
    \* history: the number of masks handed to the invalidate handler so far, how
    \* often each was painted, and the draw just made ({} after any other step)
    nextMaskId, paintedTimes, lastDraw

vars == <<invalidateMask, drawPlanned, drawRafId, rafQueue, destroyed,
          reqSinceFrame, invSinceFrame,
          isDrawingTrendline, trendlineStartPoint, trendlinePreviewEnd,
          isDrawingFibonacci, fibonacciStartPoint, fibonacciPreviewEnd,
          originalCrosshairMode, tbTrendlineActive, tbFibonacciActive,
          mIsDrawingTrendline, mTrendlineStartPoint, mTrendlinePreviewEnd,
          crosshairMode, showCenterDot,
          currentSymbol, trendlinesBySymbol, fibonacciBySymbol,
          savedTrendlines, savedFibonacci, nextId,
          storeFails, storedTrendlines, storedFibonacci, pendingLoad, thrown, panes,
          paneDataMap, nextPaneId,
          crosshairView,
          lastPaint,
          submitted,
          pendingPanes,
          paneSeparators,
          paneWidgets,
          fibonacciLevels,
          paneSymbol,
          timeScroll,
          isScrolling,
          startScrollingPos,
          pendingIds,
          pendingOps,
          scaleOptions,
          development,
          timeScale, firstValue, now, lastInput, modeBeforeActivation,
          trendlineSelection, fibonacciSelection,
          extrapolated, hit, levels, lastCall, expected,
          nextMaskId, paintedTimes, lastDraw>>

\* What the handlers of widget, toolbar and pane never write.
hostVars == <<levels, expected>>

\* What only the steps that follow single masks write.
drawVars == <<nextMaskId, paintedTimes>>

\* The mutable state of widget, toolbar and model as one record, so that a
\* handler is a function from state to state and handlers compose as calls do.
St == [invalidateMask |-> invalidateMask, drawPlanned |-> drawPlanned,
       drawRafId |-> drawRafId, rafQueue |-> rafQueue, destroyed |-> destroyed,
       reqSinceFrame |-> reqSinceFrame, invSinceFrame |-> invSinceFrame,
       isDrawingTrendline |-> isDrawingTrendline,
       trendlineStartPoint |-> trendlineStartPoint,
       trendlinePreviewEnd |-> trendlinePreviewEnd,
       isDrawingFibonacci |-> isDrawingFibonacci,
       fibonacciStartPoint |-> fibonacciStartPoint,
       fibonacciPreviewEnd |-> fibonacciPreviewEnd,
       originalCrosshairMode |-> originalCrosshairMode,
       tbTrendlineActive |-> tbTrendlineActive, tbFibonacciActive |-> tbFibonacciActive,
       mIsDrawingTrendline |-> mIsDrawingTrendline,
       mTrendlineStartPoint |-> mTrendlineStartPoint,
       mTrendlinePreviewEnd |-> mTrendlinePreviewEnd,
       crosshairMode |-> crosshairMode, showCenterDot |-> showCenterDot,
       currentSymbol |-> currentSymbol, trendlinesBySymbol |-> trendlinesBySymbol,
       fibonacciBySymbol |-> fibonacciBySymbol,
       savedTrendlines |-> savedTrendlines, savedFibonacci |-> savedFibonacci,
       storeFails |-> storeFails, storedTrendlines |-> storedTrendlines,
       storedFibonacci |-> storedFibonacci, pendingLoad |-> pendingLoad,
       thrown |-> thrown, panes |-> panes,
       paneDataMap |-> paneDataMap, nextPaneId |-> nextPaneId,
       crosshairView |-> crosshairView,
       lastPaint |-> lastPaint,
       submitted |-> submitted,
       pendingPanes |-> pendingPanes,
       paneSeparators |-> paneSeparators,
       paneWidgets |-> paneWidgets,
       fibonacciLevels |-> fibonacciLevels,
       paneSymbol |-> paneSymbol,
       timeScroll |-> timeScroll,
       isScrolling |-> isScrolling,
       startScrollingPos |-> startScrollingPos,
       pendingIds |-> pendingIds,
       pendingOps |-> pendingOps,
       scaleOptions |-> scaleOptions,
       development |-> development,
       nextId |-> nextId, modeBeforeActivation |-> modeBeforeActivation,
       trendlineSelection |-> trendlineSelection,
       fibonacciSelection |-> fibonacciSelection]

Set(s) ==
    /\ invalidateMask' = s.invalidateMask
    /\ drawPlanned' = s.drawPlanned
    /\ drawRafId' = s.drawRafId
    /\ rafQueue' = s.rafQueue
    /\ destroyed' = s.destroyed
    /\ reqSinceFrame' = s.reqSinceFrame
    /\ invSinceFrame' = s.invSinceFrame
    /\ isDrawingTrendline' = s.isDrawingTrendline
    /\ trendlineStartPoint' = s.trendlineStartPoint
    /\ trendlinePreviewEnd' = s.trendlinePreviewEnd
    /\ isDrawingFibonacci' = s.isDrawingFibonacci
    /\ fibonacciStartPoint' = s.fibonacciStartPoint
    /\ fibonacciPreviewEnd' = s.fibonacciPreviewEnd
    /\ originalCrosshairMode' = s.originalCrosshairMode
    /\ tbTrendlineActive' = s.tbTrendlineActive
    /\ tbFibonacciActive' = s.tbFibonacciActive
    /\ mIsDrawingTrendline' = s.mIsDrawingTrendline
    /\ mTrendlineStartPoint' = s.mTrendlineStartPoint
    /\ mTrendlinePreviewEnd' = s.mTrendlinePreviewEnd
    /\ crosshairMode' = s.crosshairMode
    /\ showCenterDot' = s.showCenterDot
    /\ currentSymbol' = s.currentSymbol
    /\ trendlinesBySymbol' = s.trendlinesBySymbol
    /\ fibonacciBySymbol' = s.fibonacciBySymbol
    /\ savedTrendlines' = s.savedTrendlines
    /\ savedFibonacci' = s.savedFibonacci
    /\ storeFails' = s.storeFails
    /\ storedTrendlines' = s.storedTrendlines
    /\ storedFibonacci' = s.storedFibonacci
    /\ pendingLoad' = s.pendingLoad
    /\ thrown' = s.thrown
    /\ panes' = s.panes
    /\ paneDataMap' = s.paneDataMap
    /\ nextPaneId' = s.nextPaneId
    /\ crosshairView' = s.crosshairView
    /\ lastPaint' = s.lastPaint
    /\ submitted' = s.submitted
    /\ pendingPanes' = s.pendingPanes
    /\ paneSeparators' = s.paneSeparators
    /\ paneWidgets' = s.paneWidgets
    /\ fibonacciLevels' = s.fibonacciLevels
    /\ paneSymbol' = s.paneSymbol
    /\ timeScroll' = s.timeScroll
    /\ isScrolling' = s.isScrolling
    /\ startScrollingPos' = s.startScrollingPos
    /\ pendingIds' = s.pendingIds
    /\ pendingOps' = s.pendingOps
    /\ scaleOptions' = s.scaleOptions
    /\ development' = s.development
    /\ nextId' = s.nextId
    /\ modeBeforeActivation' = s.modeBeforeActivation
    /\ trendlineSelection' = s.trendlineSelection
    /\ fibonacciSelection' = s.fibonacciSelection

\* ------------------------------------------------- invalidation and frames
\* InvalidateMask.merge, on the global level: the maximum of the two levels.
MergeLevel(a, b) == IF a >= b THEN a ELSE b

ShouldRequestFrameAlways(f) == TRUE

\* _invalidateHandler: "if (!this._drawPlanned)".
ShouldRequestFrame(f) == ~f.drawPlanned

\* _invalidateHandler up to the requestAnimationFrame call.
InvalidateHandler(f, level) ==
    LET merged == IF f.invalidateMask # {}
                  THEN {MergeLevel(Val(f.invalidateMask), level)}
                  ELSE {level}
        f1 == [f EXCEPT !.invalidateMask = merged, !.invSinceFrame = Cap(@ + 1)]
    IN IF ShouldRequestFrame(f1)
       THEN [f1 EXCEPT !.drawPlanned = TRUE, !.drawRafId = 1,
                       !.rafQueue = Cap(@ + 1), !.reqSinceFrame = Cap(@ + 1)]
       ELSE f1

\* ChartModel.fullUpdate / lightUpdate / cursorUpdate through _invalidate.
FullUpdate(f) == InvalidateHandler(f, LevelFull)
LightUpdate(f) == InvalidateHandler(f, LevelLight)
CursorUpdate(f) == InvalidateHandler(f, LevelCursor)

\* _drawImpl: pane.updateTrendlines(model.trendlines()) and
\* pane.updateFibonacciRetracements(model.fibonacciRetracements()) hand every
\* pane widget the maps of the symbol that is current at the draw.
UpdateTrendlines(f) == [f EXCEPT !.paneSymbol = f.currentSymbol]

\* Array.prototype.pop() applied n times.
PopTimes(seq, n) == SubSeq(seq, 1, Len(seq) - n)

\* _syncGuiWithModel without its last loop: a widget that stays keeps the pane
\* it was bound to.
SyncGuiWithModelBoundOnce(f) ==
    LET target == Len(f.panes)
        actual == Len(f.paneWidgets)
    IN IF target < actual
       THEN [f EXCEPT !.paneWidgets = PopTimes(@, actual - target),
                      !.paneSeparators = IF @ > actual - target
                                         THEN @ - (actual - target) ELSE 0]
       ELSE [f EXCEPT !.paneWidgets =
                          [i \in 1..target |-> IF i <= actual THEN @[i] ELSE f.panes[i].id],
                      !.paneSeparators =
                          @ + Cardinality({i \in actual..(target - 1) : i > 0})]

\* ChartWidget._syncGuiWithModel: pops the pane widgets (and a separator with
\* each, while there is one) beyond the model's pane count, creates the missing
\* ones (with a separator for every index above 0), then binds widget i to
\* model pane i.
SyncGuiWithModel(f) ==
    LET target == Len(f.panes)
        actual == Len(f.paneWidgets)
        removed == IF target < actual
                   THEN [f EXCEPT !.paneWidgets = PopTimes(@, actual - target),
                                  !.paneSeparators = IF @ > actual - target
                                                     THEN @ - (actual - target) ELSE 0]
                   ELSE f
        created == [removed EXCEPT
                        !.paneWidgets =
                            [i \in 1..target |->
                                 IF i <= Len(@) THEN @[i] ELSE f.panes[i].id],
                        !.paneSeparators =
                            @ + Cardinality({i \in actual..(target - 1) : i > 0})]
    IN [created EXCEPT !.paneWidgets = [i \in 1..target |-> f.panes[i].id]]

\* ChartWidget._updateGui.
UpdateGui(f) == SyncGuiWithModel(f)

\* _drawImpl(mask): `reentrant` is the invalidation ({} for none) that the update
\* steps (GUI sync, setWidth, pane heights) hand back to the invalidate handler
\* while the draw runs; a pending Full mask is merged into the draw and cleared.
DrawImpl(f, level, reentrant) ==
    IF level \in {LevelLight, LevelFull}
    THEN LET f0 == UpdateTrendlines(IF level = LevelFull THEN UpdateGui(f) ELSE f)
             f1 == IF reentrant # {} THEN InvalidateHandler(f0, Val(reentrant)) ELSE f0
         IN IF f1.invalidateMask = {LevelFull}
            THEN UpdateGui([f1 EXCEPT !.invalidateMask = {}])
            ELSE f1
    ELSE f

\* The callback given to requestAnimationFrame; `animating` says the drawn mask
\* carried an animation that is not finished at the frame's time.
FrameCallbackBody(f, reentrant, animating) ==
    LET f0 == [f EXCEPT !.drawPlanned = FALSE, !.drawRafId = 0,
                        !.rafQueue = @ - 1,
                        !.reqSinceFrame = 0, !.invSinceFrame = 0]
    IN IF f0.invalidateMask # {}
       THEN LET level == Val(f0.invalidateMask)
                f1 == DrawImpl([f0 EXCEPT !.invalidateMask = {}], level, reentrant)
            IN IF animating /\ level >= LevelLight THEN LightUpdate(f1) ELSE f1
       ELSE f0

\* Any model mutation or API call that ends in ChartModel._invalidate(mask).
Invalidate(level) ==
    /\ Set(InvalidateHandler(St, level))
    /\ lastInput' = {}
    /\ UNCHANGED <<timeScale, firstValue, now, extrapolated, hit>>
    /\ UNCHANGED hostVars /\ UNCHANGED drawVars /\ lastDraw' = {} /\ lastCall' = {}

\* The browser runs one outstanding frame callback.
FrameCallback ==
    /\ rafQueue > 0
    /\ \E reentrant \in {{}, {LevelLight}, {LevelFull}}, animating \in BOOLEAN :
           Set(FrameCallbackBody(St, reentrant, animating))
    /\ lastInput' = {}
    /\ UNCHANGED <<timeScale, firstValue, now, extrapolated, hit>>
    /\ UNCHANGED hostVars /\ UNCHANGED drawVars /\ lastDraw' = {} /\ lastCall' = {}

\* takeScreenshot: draws the pending mask synchronously and clears it.
TakeScreenshot ==
    /\ ~destroyed
    /\ invalidateMask # {}
    /\ \E reentrant \in {{}, {LevelLight}, {LevelFull}} :
           Set([DrawImpl(St, Val(invalidateMask), reentrant)
                   EXCEPT !.invalidateMask = {}])
    /\ lastInput' = {}
    /\ UNCHANGED <<timeScale, firstValue, now, extrapolated, hit>>
    /\ UNCHANGED hostVars /\ UNCHANGED drawVars /\ lastDraw' = {} /\ lastCall' = {}

\* destroy(): cancels the frame whose handle is stored; _drawPlanned is not reset.
DestroyBody(s) ==
    [s EXCEPT !.destroyed = TRUE,
              !.rafQueue = IF s.drawRafId # 0 THEN @ - 1 ELSE @]

Destroy ==
    /\ ~destroyed
    /\ Set(DestroyBody(St))
    /\ lastInput' = {}
    /\ UNCHANGED <<timeScale, firstValue, now, extrapolated, hit>>
    /\ UNCHANGED hostVars /\ UNCHANGED drawVars /\ lastDraw' = {} /\ lastCall' = {}

\* ------------------------------------------------ time scale, price scale
\* timeScale = [points, barSpacing, rightOffset, width]; points[i + 1] is the
\* original time of the point with index i.
BaseIndex(ts) == IF Len(ts.points) = 0 THEN 0 ELSE Len(ts.points) - 1

\* indexToTimeScalePoint(index)?.originalTime: {} when the index has no point.
IndexToTime(ts, index) ==
    IF index >= 0 /\ index < Len(ts.points) THEN {ts.points[index + 1]} ELSE {}

\* indexToCoordinate(index): affine in the index, for any index; null (not ready)
\* on an empty time scale.
IndexToCoordinate(ts, index) ==
    IF Len(ts.points) = 0
    THEN {}
    ELSE {ts.width - (BaseIndex(ts) + ts.rightOffset - index) * ts.barSpacing}

\* coordinateToIndex(x): the index whose coordinate is nearest to x.
CoordinateToIndex(ts, x) ==
    IF Len(ts.points) = 0
    THEN {}
    ELSE LET c0 == Val(IndexToCoordinate(ts, 0))
         IN {(2 * (x - c0) + ts.barSpacing) \div (2 * ts.barSpacing)}

\* PriceScale.coordinateToPrice(y, firstValue): affine, the top pixel is MaxPrice.
CoordinateToPrice(y, fv) == {MaxPrice - y}

ProjectFromPrev(x, baseTime, baseCoord, prevTime, prevCoord) ==
    prevTime + ((x - baseCoord) * (baseTime - prevTime)) \div (baseCoord - prevCoord)

\* The time-per-pixel projection both extrapolation functions share:
\* baseTime + (x - baseCoord) * (timeInterval / coordInterval).  The model's time
\* steps are multiples of its bar spacings, so the quotient is exact.
Project(x, baseTime, baseCoord, prevTime, prevCoord) ==
    baseTime + ((x - baseCoord) * (baseTime - prevTime)) \div (baseCoord - prevCoord)

\* ChartWidget._extrapolateTimeFromCoordinate(x); t is Date.now() / 1000.
ExtrapolateTimeFromCoordinate(ts, x, t) ==
    LET baseIndex == BaseIndex(ts)
        baseTime == IndexToTime(ts, baseIndex)
        baseCoord == IndexToCoordinate(ts, baseIndex)
        prevTime == IndexToTime(ts, baseIndex - 1)
        prevCoord == IndexToCoordinate(ts, baseIndex - 1)
    IN IF /\ baseTime # {} /\ baseCoord # {} /\ prevTime # {} /\ prevCoord # {}
          /\ Val(baseCoord) - Val(prevCoord) # 0
       THEN Project(x, Val(baseTime), Val(baseCoord), Val(prevTime), Val(prevCoord))
       ELSE t + (x * 86400) \div 100

ClickIsBeyondDataAlwaysFalse(ts, x) == FALSE

\* "baseCoord !== null && point.x > baseCoord" of the click handlers.
ClickIsBeyondData(ts, x) ==
    LET baseCoord == IndexToCoordinate(ts, BaseIndex(ts))
    IN baseCoord # {} /\ x > Val(baseCoord)

\* The timeValue computed by _handleTrendlineClick / _handleFibonacciClick;
\* `time` is the index the pane hands over, coordinateToIndex(x).
ClickTime(ts, x, time, t) ==
    IF ClickIsBeyondData(ts, x)
    THEN ExtrapolateTimeFromCoordinate(ts, x, t)
    ELSE IF time # {}
         THEN IF IndexToTime(ts, Val(time)) # {}
              THEN Val(IndexToTime(ts, Val(time)))
              ELSE ExtrapolateTimeFromCoordinate(ts, x, t)
         ELSE ExtrapolateTimeFromCoordinate(ts, x, t)

\* ------------------------------------------------------------ annotations
Symbols == {"", "AAPL"}

\* Map.set(data.id, annotation) on one symbol's map.
MapSet(m, data) == {a \in m : a.id # data.id} \cup {data}

\* The object _saveTrendlinesToStorage / _saveFibonacciToStorage builds: the
\* per-symbol maps that are not empty (the fallback map of the empty symbol is
\* not among them).
SavePayload(bySymbol) ==
    [sym \in {k \in DOMAIN bySymbol : k # "" /\ bySymbol[k] # {}} |-> bySymbol[sym]]

\* A symbol's entry in a payload or in the store; absent entries are empty.
PayloadOf(payload, sym) == IF sym \in DOMAIN payload THEN payload[sym] ELSE {}

CatchNothing(s) == s

\* "catch (error) { console.error(...) }" around the body of a save or a load,
\* and the .catch(console.error) on the promise of the asynchronous save: the
\* exception ends there.
CatchAndLog(s) == [s EXCEPT !.thrown = FALSE]

\* _saveTrendlinesToStorage: builds the payload, then indexedDB.open and, in its
\* onsuccess, store.put(allTrendlines, 'all_trendlines'). Requests to the one
\* database are served in the order they were made, so the put is applied here.
SaveTrendlinesToStorage(s) ==
    LET allTrendlines == SavePayload(s.trendlinesBySymbol)
        s1 == [s EXCEPT !.savedTrendlines = allTrendlines]
    IN CatchAndLog(IF s1.storeFails
                   THEN [s1 EXCEPT !.thrown = TRUE]
                   ELSE [s1 EXCEPT !.storedTrendlines = allTrendlines])

\* _saveFibonacciToStorage: builds the payload, then localStorage.setItem.
SaveFibonacciToStorage(s) ==
    LET allFibonacci == SavePayload(s.fibonacciBySymbol)
        s1 == [s EXCEPT !.savedFibonacci = allFibonacci]
    IN CatchAndLog(IF s1.storeFails
                   THEN [s1 EXCEPT !.thrown = TRUE]
                   ELSE [s1 EXCEPT !.storedFibonacci = allFibonacci])

FullUpdateSkipped(s) == s

\* The statements of a method that follow a call: skipped while an exception
\* is in flight.
FullUpdateUnlessThrown(s) == IF s.thrown THEN s ELSE FullUpdate(s)

\* ChartModel.addTrendline.
AddTrendline(s, data) ==
    LET stored == [s.trendlinesBySymbol EXCEPT ![s.currentSymbol] = MapSet(@, data)]
    IN FullUpdateUnlessThrown(
           SaveTrendlinesToStorage([s EXCEPT !.trendlinesBySymbol = stored]))

\* ChartModel.addFibonacci.
AddFibonacci(s, data) ==
    LET stored == [s.fibonacciBySymbol EXCEPT ![s.currentSymbol] = MapSet(@, data)]
    IN FullUpdateUnlessThrown(
           SaveFibonacciToStorage([s EXCEPT !.fibonacciBySymbol = stored]))

\* ChartModel.removeTrendline: "if (map.delete(id)) { save; fullUpdate }".
RemoveTrendline(s, id) ==
    LET map == s.trendlinesBySymbol[s.currentSymbol]
    IN IF \E a \in map : a.id = id
       THEN FullUpdateUnlessThrown(SaveTrendlinesToStorage(
                [s EXCEPT !.trendlinesBySymbol[s.currentSymbol] =
                              {a \in map : a.id # id}]))
       ELSE s

\* Trendline.updateData: "this._data = { ...this._data, ...data }"; `data` is a
\* partial record.
UpdateData(old, data) ==
    [k \in DOMAIN old |-> IF k \in DOMAIN data THEN data[k] ELSE old[k]]

\* ChartModel.updateTrendline(id, data).
UpdateTrendline(s, id, data) ==
    LET map == s.trendlinesBySymbol[s.currentSymbol]
    IN IF \E a \in map : a.id = id
       THEN FullUpdateUnlessThrown(SaveTrendlinesToStorage(
                [s EXCEPT !.trendlinesBySymbol[s.currentSymbol] =
                              {IF a.id = id THEN UpdateData(a, data) ELSE a : a \in map}]))
       ELSE s

\* ChartModel.removeFibonacci: delete, save and fullUpdate whatever the id.
RemoveFibonacci(s, id) ==
    FullUpdateUnlessThrown(SaveFibonacciToStorage(
        [s EXCEPT !.fibonacciBySymbol[s.currentSymbol] = {a \in @ : a.id # id}]))

\* ChartModel.updateFibonacci(id, point1, point2); an absent point is {}.
UpdateFibonacci(s, id, point1, point2) ==
    LET map == s.fibonacciBySymbol[s.currentSymbol]
        updated(a) == [a EXCEPT !.point1 = IF point1 # {} THEN Val(point1) ELSE @,
                                !.point2 = IF point2 # {} THEN Val(point2) ELSE @]
    IN IF \E a \in map : a.id = id
       THEN FullUpdateUnlessThrown(SaveFibonacciToStorage(
                [s EXCEPT !.fibonacciBySymbol[s.currentSymbol] =
                              {IF a.id = id THEN updated(a) ELSE a : a \in map}]))
       ELSE s

\* ChartModel.setCurrentSymbol.
SetCurrentSymbolBody(s, symbol) == FullUpdate([s EXCEPT !.currentSymbol = symbol])

\* ------------------------------------------------------------ price scales
\* A price scale: its autoScale option and the custom range set on it ({} for
\* none). A pane has a left and a right price scale, created from the options
\* of the chart, which ask for auto-scale by default.
DefaultScaleOptions ==
    [id \in {"left", "right"} |-> [autoScale |-> TRUE, customRange |-> {}]]

\* ------------------------------------------------------------------ panes
\* panes[i + 1] is the pane with index i: [id, series, priceScales], `id`
\* standing for the identity of the Pane object and `series` for the series
\* it holds.
PaneCount(s) == Len(s.panes)

\* Array.prototype.splice(index, 1).
SpliceOne(seq, index) ==
    [i \in 1..(Len(seq) - 1) |-> IF i <= index THEN seq[i] ELSE seq[i + 1]]

\* new Pane(...): an object distinct from every pane of the model.
NewPaneId(s) ==
    CHOOSE n \in 0..PaneCount(s) :
        /\ \A i \in 1..PaneCount(s) : s.panes[i].id # n
        /\ \A m \in 0..PaneCount(s) :
               (\A i \in 1..PaneCount(s) : s.panes[i].id # m) => n <= m

\* assert(condition, message): throws when the condition does not hold.
EnsureThat(s, condition) == IF condition THEN s ELSE [s EXCEPT !.thrown = TRUE]

\* ChartModel._getOrCreatePane(index): a new pane is pushed when the index is
\* not below the pane count, with a full mask handed to _invalidate.
GetOrCreatePane(s, index) ==
    IF Min(PaneCount(s), index) < PaneCount(s)
    THEN s
    ELSE FullUpdate([s EXCEPT !.panes = Append(@, [id |-> NewPaneId(s), series |-> {},
                                                   priceScales |-> s.scaleOptions])])

\* The series of the model, over all panes (_serieses).
Serieses(s) == UNION {s.panes[i].series : i \in 1..PaneCount(s)}

\* ChartModel.addPane.
AddPane(s) ==
    LET paneIndex == PaneCount(s)
        s1 == GetOrCreatePane(s, paneIndex)
        paneData == [id |-> s1.nextPaneId, title |-> paneIndex]
    IN FullUpdate([s1 EXCEPT !.nextPaneId = @ + 1,
                             !.paneDataMap = [i \in DOMAIN @ \cup {paneIndex} |->
                                                  IF i = paneIndex THEN paneData ELSE @[i]]])

\* ChartModel.addSeriesToPane(series, paneIndex).
AddSeriesToPane(s, series, paneIndex) ==
    LET s1 == GetOrCreatePane(s, paneIndex)
        index == Min(PaneCount(s), paneIndex) + 1
        s2 == [s1 EXCEPT !.panes[index].series = @ \cup {series}]
    IN IF Cardinality(Serieses(s2)) = 1 THEN FullUpdate(s2) ELSE LightUpdate(s2)

\* _cleanupIfPaneIsEmpty without the test of the pane count.
CleanupIfPaneIsEmptyAnyCount(s, paneId) ==
    LET index == CHOOSE i \in 1..PaneCount(s) : s.panes[i].id = paneId
    IN IF s.panes[index].series = {}
       THEN FullUpdate([s EXCEPT !.panes = SpliceOne(@, index - 1)])
       ELSE s

\* ChartModel._cleanupIfPaneIsEmpty(pane), the pane given by its identity.
CleanupIfPaneIsEmpty(s, paneId) ==
    LET index == CHOOSE i \in 1..PaneCount(s) : s.panes[i].id = paneId
    IN IF s.panes[index].series = {} /\ PaneCount(s) > 1
       THEN FullUpdate([s EXCEPT !.panes = SpliceOne(@, index - 1)])
       ELSE s

\* ChartModel.removeSeries(series).
RemoveSeries(s, series) ==
    LET index == CHOOSE i \in 1..PaneCount(s) : series \in s.panes[i].series
        paneId == s.panes[index].id
    IN CleanupIfPaneIsEmpty([s EXCEPT !.panes[index].series = @ \ {series}], paneId)

\* ChartModel.moveSeriesToPane(series, newPaneIndex).
MoveSeriesToPane(s, series, newPaneIndex) ==
    LET from == CHOOSE i \in 1..PaneCount(s) : series \in s.panes[i].series
        previousPane == s.panes[from].id
        s1 == [s EXCEPT !.panes[from].series = @ \ {series}]
        s2 == GetOrCreatePane(s1, newPaneIndex)
        index == Min(PaneCount(s1), newPaneIndex) + 1
        s3 == [s2 EXCEPT !.panes[index].series = @ \cup {series}]
    IN IF newPaneIndex = from - 1
       THEN s
       ELSE IF \E i \in 1..PaneCount(s3) :
                   s3.panes[i].id = previousPane /\ s3.panes[i].series = {}
       THEN CleanupIfPaneIsEmpty(s3, previousPane)
       ELSE s3

\* "seriesToRemove.forEach(series => this.removeSeries(series))".
RECURSIVE RemoveEachSeries(_, _)
RemoveEachSeries(s, seriesToRemove) ==
    IF seriesToRemove = {}
    THEN s
    ELSE LET series == CHOOSE x \in seriesToRemove :
                           \A y \in seriesToRemove : x <= y
         IN RemoveEachSeries(RemoveSeries(s, series), seriesToRemove \ {series})

\* ChartModel.removePane(index).
RemovePane(s, index) ==
    IF PaneCount(s) = 1
    THEN s
    ELSE LET s1 == EnsureThat(s, index >= 0 /\ index < PaneCount(s))
         IN IF s1.thrown
            THEN s1
            ELSE FullUpdate([s1 EXCEPT !.panes = SpliceOne(@, index)])

\* The index shift of deletePaneById: entries above paneIndex move down by one.
ShiftPaneData(map, paneIndex) ==
    LET kept == DOMAIN map \ {paneIndex}
        moved == {IF i > paneIndex THEN i - 1 ELSE i : i \in kept}
    IN [j \in moved |->
           IF j + 1 \in kept /\ j + 1 > paneIndex THEN map[j + 1] ELSE map[j]]

\* ChartModel.deletePaneById(paneIndex).
DeletePaneById(s, paneIndex) ==
    IF paneIndex = 0
    THEN s
    ELSE IF paneIndex >= PaneCount(s) \/ paneIndex < 0
    THEN s
    ELSE LET s1 == RemoveEachSeries(s, s.panes[paneIndex + 1].series)
             s2 == RemovePane(s1, paneIndex)
         IN IF s2.thrown
            THEN s2
            ELSE FullUpdate([s2 EXCEPT !.paneDataMap = ShiftPaneData(@, paneIndex)])

\* ChartModel.swapPanes(first, second).
SwapPanes(s, first, second) ==
    LET s1 == EnsureThat(s, /\ first >= 0 /\ first < PaneCount(s)
                            /\ second >= 0 /\ second < PaneCount(s))
    IN IF s1.thrown
       THEN s1
       ELSE FullUpdate([s1 EXCEPT !.panes[first + 1] = s.panes[second + 1],
                                  !.panes[second + 1] = s.panes[first + 1]])

\* ------------------------------------------- price scale options by pane
\* The ids a caller names: a default scale and one that no pane has.
ScaleIds == {"right", "overlay"}

\* A DeepPartial<PriceScaleOptions>: `autoScale` is {} when the option is not
\* given. PriceScale.applyOptions merges it into the scale's options.
PriceScaleApplyOptions(priceScale, options) ==
    IF options.autoScale # {}
    THEN [priceScale EXCEPT !.autoScale = Val(options.autoScale)]
    ELSE priceScale

\* PriceScale.setCustomPriceRange(range): the range is kept and auto-scale is
\* off from then on.
SetCustomPriceRange(priceScale, range) ==
    [priceScale EXCEPT !.customRange = {range}, !.autoScale = FALSE]

\* "throw new Error(...)" under process.env.NODE_ENV === 'development', a plain
\* return otherwise.
ThrowInDevelopment(s) == IF s.development THEN [s EXCEPT !.thrown = TRUE] ELSE s

\* ChartModel.findPriceScale(priceScaleId, paneIndex), as an optional value.
FindPriceScale(s, priceScaleId, paneIndex) ==
    IF paneIndex < 0 \/ paneIndex >= PaneCount(s)
    THEN {}
    ELSE IF priceScaleId \in DOMAIN s.panes[paneIndex + 1].priceScales
         THEN {s.panes[paneIndex + 1].priceScales[priceScaleId]}
         ELSE {}

\* ChartModel.applyPriceScaleOptions(priceScaleId, options, paneIndex).
ApplyPriceScaleOptions(s, priceScaleId, options, paneIndex) ==
    IF paneIndex < 0 \/ paneIndex >= PaneCount(s)
    THEN ThrowInDevelopment(s)
    ELSE IF priceScaleId \in {"left", "right"}
    THEN FullUpdate(
             [s EXCEPT !.scaleOptions[priceScaleId] = PriceScaleApplyOptions(@, options),
                       !.panes[paneIndex + 1].priceScales[priceScaleId] =
                           PriceScaleApplyOptions(@, options)])
    ELSE IF FindPriceScale(s, priceScaleId, paneIndex) = {}
    THEN ThrowInDevelopment(s)
    ELSE [s EXCEPT !.panes[paneIndex + 1].priceScales[priceScaleId] =
                       PriceScaleApplyOptions(@, options)]

SetAutoScaleSkipped(s, priceScaleId, paneIndex, on) == s

\* PriceScaleApi.setAutoScale(on) of the scale `priceScaleId` of pane `paneIndex`.
SetAutoScale(s, priceScaleId, paneIndex, on) ==
    ApplyPriceScaleOptions(s, priceScaleId, [autoScale |-> {on}], paneIndex)

\* PriceScaleApi._priceScale(): ensureNotNull(findPriceScale(...)) throws when
\* there is no such scale.
EnsurePriceScale(s, priceScaleId, paneIndex) ==
    IF FindPriceScale(s, priceScaleId, paneIndex) = {}
    THEN [s EXCEPT !.thrown = TRUE]
    ELSE s

\* PriceScaleApi.setVisibleRange(range), after its first statement has led to
\* the state s1.
SetVisibleRangeStep2(s1, priceScaleId, paneIndex, range) ==
    IF s1.thrown
    THEN s1
    ELSE LET s2 == EnsurePriceScale(s1, priceScaleId, paneIndex)
         IN IF s2.thrown
            THEN s2
            ELSE [s2 EXCEPT !.panes[paneIndex + 1].priceScales[priceScaleId] =
                                SetCustomPriceRange(@, range)]

\* PriceScaleApi.setVisibleRange(range).
SetVisibleRange(s, priceScaleId, paneIndex, range) ==
    SetVisibleRangeStep2(SetAutoScale(s, priceScaleId, paneIndex, FALSE),
                         priceScaleId, paneIndex, range)

\* ---------------------------------------------------------- drawing tools
\* ChartModel.applyOptions({ crosshair: { mode } }).
ApplyCrosshairMode(s, mode) == FullUpdate([s EXCEPT !.crosshairMode = mode])

\* ChartModel.setTrendlineDrawingState.
SetTrendlineDrawingState(s, isDrawing) ==
    IF isDrawing
    THEN [s EXCEPT !.mIsDrawingTrendline = TRUE]
    ELSE [s EXCEPT !.mIsDrawingTrendline = FALSE,
                   !.mTrendlineStartPoint = {},
                   !.mTrendlinePreviewEnd = {}]

RestoreCrosshairModeSkipped(s) == s

\* "Restore original crosshair mode": if (_originalCrosshairMode !== null) ...
RestoreCrosshairMode(s) ==
    IF s.originalCrosshairMode # {}
    THEN [ApplyCrosshairMode(s, Val(s.originalCrosshairMode))
             EXCEPT !.originalCrosshairMode = {}]
    ELSE s

\* "Store original crosshair mode and switch to Normal mode" of both toggles;
\* modeBeforeActivation is the history of the mode the tool found.
SaveCrosshairModeAndFree(s) ==
    ApplyCrosshairMode([s EXCEPT !.originalCrosshairMode = {s.crosshairMode},
                                 !.modeBeforeActivation = {s.crosshairMode}],
                       CrosshairModeNormal)

\* ChartWidget._onTrendlineToolToggle(active); _getLastMousePosition() is null.
OnTrendlineToolToggle(s, active) ==
    LET s1 == SetTrendlineDrawingState(
                  [s EXCEPT !.isDrawingTrendline = active,
                            !.trendlineStartPoint = {},
                            !.trendlinePreviewEnd = {}], active)
    IN IF active
       THEN FullUpdate(SaveCrosshairModeAndFree([s1 EXCEPT !.showCenterDot = TRUE]))
       ELSE FullUpdate(RestoreCrosshairMode([s1 EXCEPT !.showCenterDot = FALSE]))

\* ChartWidget._onFibonacciToolToggle(active).
OnFibonacciToolToggle(s, active) ==
    LET s1 == [s EXCEPT !.isDrawingFibonacci = active,
                        !.fibonacciStartPoint = {},
                        !.fibonacciPreviewEnd = {}]
    IN IF active THEN SaveCrosshairModeAndFree(s1) ELSE RestoreCrosshairMode(s1)

TrendlineButtonClickKeepsOther(s) ==
    LET s2 == [s EXCEPT !.tbTrendlineActive = ~@]
    IN OnTrendlineToolToggle(s2, s2.tbTrendlineActive)

\* ToolbarWidget: click handler of the trendline button.
TrendlineButtonClick(s) ==
    LET s1 == IF s.tbFibonacciActive
              THEN OnFibonacciToolToggle([s EXCEPT !.tbFibonacciActive = FALSE], FALSE)
              ELSE s
        s2 == [s1 EXCEPT !.tbTrendlineActive = ~@]
    IN OnTrendlineToolToggle(s2, s2.tbTrendlineActive)

\* ToolbarWidget: click handler of the Fibonacci button.
FibonacciButtonClick(s) ==
    LET s1 == IF s.tbTrendlineActive
              THEN OnTrendlineToolToggle([s EXCEPT !.tbTrendlineActive = FALSE], FALSE)
              ELSE s
        s2 == [s1 EXCEPT !.tbFibonacciActive = ~@]
    IN OnFibonacciToolToggle(s2, s2.tbFibonacciActive)

AnnotationDataSwapped(id, start, timeValue, price) ==
    [id |-> id,
     point1 |-> [time |-> timeValue, value |-> price],
     point2 |-> [time |-> start.time, value |-> start.price]]

\* The TrendlineData / fibData object literal built on the second click.
AnnotationData(id, start, timeValue, price) ==
    [id |-> id,
     point1 |-> [time |-> start.time, value |-> start.price],
     point2 |-> [time |-> timeValue, value |-> price]]

\* ChartWidget._handleTrendlineClick for a non-null point (x, y).
HandleTrendlineClick(s, ts, fv, x, y, time, t) ==
    IF fv = {}
    THEN s
    ELSE LET price == CoordinateToPrice(y, Val(fv))
             timeValue == ClickTime(ts, x, time, t)
         IN IF price = {}
            THEN s
            ELSE IF s.trendlineStartPoint = {}
            THEN LET p == [x |-> x, y |-> y, time |-> timeValue, price |-> Val(price)]
                 IN [s EXCEPT !.trendlineStartPoint = {p}, !.mTrendlineStartPoint = {p}]
            ELSE LET data == AnnotationData(s.nextId, Val(s.trendlineStartPoint),
                                            timeValue, Val(price))
                     s1 == AddTrendline([s EXCEPT !.nextId = @ + 1], data)
                     s2 == SetTrendlineDrawingState(
                               [s1 EXCEPT !.isDrawingTrendline = FALSE,
                                          !.trendlineStartPoint = {},
                                          !.trendlinePreviewEnd = {}], FALSE)
                     s3 == RestoreCrosshairMode([s2 EXCEPT !.showCenterDot = FALSE])
                 IN FullUpdate([s3 EXCEPT !.tbTrendlineActive = FALSE])

\* ChartWidget._handleFibonacciClick for a non-null point (x, y).
HandleFibonacciClick(s, ts, fv, x, y, time, t) ==
    IF fv = {}
    THEN s
    ELSE LET price == CoordinateToPrice(y, Val(fv))
             timeValue == ClickTime(ts, x, time, t)
         IN IF price = {}
            THEN s
            ELSE IF s.fibonacciStartPoint = {}
            THEN LET p == [x |-> x, y |-> y, time |-> timeValue, price |-> Val(price)]
                 IN [s EXCEPT !.fibonacciStartPoint = {p}]
            ELSE LET data == AnnotationData(s.nextId, Val(s.fibonacciStartPoint),
                                            timeValue, Val(price))
                     s1 == AddFibonacci([s EXCEPT !.nextId = @ + 1], data)
                 IN [s1 EXCEPT !.isDrawingFibonacci = FALSE,
                               !.fibonacciStartPoint = {},
                               !.fibonacciPreviewEnd = {},
                               !.tbFibonacciActive = FALSE]

\* ChartWidget._onPaneWidgetClicked, reached from PaneWidget._fireMouseClickDelegate
\* with time = coordinateToIndex(x).
OnPaneWidgetClicked(s, ts, fv, x, y, t) ==
    LET time == CoordinateToIndex(ts, x)
    IN IF s.isDrawingTrendline
       THEN HandleTrendlineClick(s, ts, fv, x, y, time, t)
       ELSE IF s.isDrawingFibonacci
            THEN HandleFibonacciClick(s, ts, fv, x, y, time, t)
            ELSE s

\* ------------------------------------------------------- preview paths
\* PaneWidget._extrapolateTimeFromCoordinate(x, timeScale), used by the drags.
PaneExtrapolateTimeFromCoordinate(ts, x, t) ==
    LET baseIndex == BaseIndex(ts)
        baseCoord == IndexToCoordinate(ts, baseIndex)
        baseTime == IndexToTime(ts, baseIndex)
        prevCoord == IndexToCoordinate(ts, baseIndex - 1)
        prevTime == IndexToTime(ts, baseIndex - 1)
    IN IF /\ baseTime # {} /\ prevTime # {} /\ baseCoord # {} /\ prevCoord # {}
          /\ Val(baseCoord) - Val(prevCoord) # 0
       THEN Project(x, Val(baseTime), Val(baseCoord), Val(prevTime), Val(prevCoord))
       ELSE t

\* The "beyond data range" branch written out in PaneWidget._updateTrendlinePreview
\* and PaneWidget._updateFibonacciPreview, for x > baseCoord.
PanePreviewExtrapolate(ts, x, t) ==
    LET baseIndex == BaseIndex(ts)
        baseCoord == IndexToCoordinate(ts, baseIndex)
        baseTime == IndexToTime(ts, baseIndex)
        prevTime == IndexToTime(ts, baseIndex - 1)
        prevCoord == IndexToCoordinate(ts, baseIndex - 1)
    IN IF baseTime # {} /\ prevTime # {} /\ prevCoord # {}
       THEN IF Val(baseCoord) - Val(prevCoord) # 0
            THEN Project(x, Val(baseTime), Val(baseCoord), Val(prevTime), Val(prevCoord))
            ELSE Val(baseTime)
       ELSE t

\* timeScale.visibleStrictRange(): the integer index range of the viewport, null
\* on an empty time scale.
VisibleStrictRange(ts) ==
    IF Len(ts.points) = 0
    THEN {}
    ELSE {[left |-> BaseIndex(ts) + ts.rightOffset - (ts.width \div ts.barSpacing) + 1,
           right |-> BaseIndex(ts) + ts.rightOffset]}

\* The for loop of _updateTrendlinePreview that looks for the indexes around x.
RECURSIVE FindBounds(_, _, _, _, _)
FindBounds(ts, x, i, last, acc) ==
    IF i > last
    THEN acc
    ELSE LET coord == IndexToCoordinate(ts, i)
             a1 == IF /\ coord # {} /\ Val(coord) <= x
                      /\ (~acc.foundLeft \/ i > acc.leftIndex)
                   THEN [acc EXCEPT !.leftIndex = i, !.leftCoord = Val(coord),
                                    !.foundLeft = TRUE]
                   ELSE acc
             a2 == IF /\ coord # {} /\ Val(coord) >= x
                      /\ (~a1.foundRight \/ i < a1.rightIndex \/ a1.rightIndex = -1)
                   THEN [a1 EXCEPT !.rightIndex = i, !.rightCoord = Val(coord),
                                   !.foundRight = TRUE]
                   ELSE a1
         IN FindBounds(ts, x, i + 1, last, a2)

Abs(n) == IF n < 0 THEN -n ELSE n

\* The time PaneWidget._updateTrendlinePreview computes for the pointer.
PaneTrendlinePreviewTime(ts, x, t) ==
    LET visibleRange == VisibleStrictRange(ts)
        baseCoord == IndexToCoordinate(ts, BaseIndex(ts))
    IN IF visibleRange # {} /\ baseCoord # {} /\ x > Val(baseCoord)
       THEN PanePreviewExtrapolate(ts, x, t)
       ELSE IF visibleRange = {}
       THEN t
       ELSE LET b == FindBounds(ts, x, Val(visibleRange).left, Val(visibleRange).right,
                                [leftIndex |-> -1, rightIndex |-> -1,
                                 leftCoord |-> -1, rightCoord |-> -1,
                                 foundLeft |-> FALSE, foundRight |-> FALSE])
                leftTime == IndexToTime(ts, b.leftIndex)
                rightTime == IndexToTime(ts, b.rightIndex)
            IN IF /\ b.foundLeft /\ b.foundRight /\ b.leftIndex # b.rightIndex
                  /\ b.leftIndex # -1 /\ b.rightIndex # -1
               THEN IF leftTime # {} /\ rightTime # {}
                    THEN Val(leftTime)
                         + ((Val(rightTime) - Val(leftTime)) * (x - b.leftCoord))
                           \div (b.rightCoord - b.leftCoord)
                    ELSE LET closest == IF Abs(x - b.leftCoord) < Abs(x - b.rightCoord)
                                        THEN leftTime ELSE rightTime
                         IN IF closest # {} THEN Val(closest) ELSE t
               ELSE IF b.foundLeft /\ b.leftIndex # -1
               THEN IF leftTime # {} THEN Val(leftTime) ELSE t
               ELSE IF b.foundRight /\ b.rightIndex # -1
               THEN IF rightTime # {} THEN Val(rightTime) ELSE t
               ELSE t

\* The time PaneWidget._updateFibonacciPreview computes for the pointer.
PaneFibonacciPreviewTime(ts, x, t) ==
    LET baseCoord == IndexToCoordinate(ts, BaseIndex(ts))
    IN IF baseCoord # {} /\ x > Val(baseCoord)
       THEN PanePreviewExtrapolate(ts, x, t)
       ELSE LET index == CoordinateToIndex(ts, x)
            IN IF index # {} /\ IndexToTime(ts, Val(index)) # {}
               THEN Val(IndexToTime(ts, Val(index)))
               ELSE t

\* The time ChartWidget._updateTrendlinePreview / _updateFibonacciPreview compute.
WidgetPreviewTime(ts, x, t) == ClickTime(ts, x, CoordinateToIndex(ts, x), t)

PreviewPoint(x, y, time, price) == [x |-> x, y |-> y, time |-> time, price |-> price]

\* PaneWidget._updateTrendlinePreview(currentX, currentY).
PaneUpdateTrendlinePreview(s, ts, fv, x, y, t) ==
    IF s.mTrendlineStartPoint = {} \/ fv = {} \/ CoordinateToPrice(y, Val(fv)) = {}
    THEN s
    ELSE LightUpdate([s EXCEPT !.mTrendlinePreviewEnd =
             {PreviewPoint(x, y, PaneTrendlinePreviewTime(ts, x, t),
                           Val(CoordinateToPrice(y, Val(fv))))}])

\* _updateFibonacciPreview with a full update in place of the light one.
PaneUpdateFibonacciPreviewFull(s, ts, fv, x, y, t) ==
    IF s.fibonacciStartPoint = {} \/ fv = {} \/ CoordinateToPrice(y, Val(fv)) = {}
    THEN s
    ELSE FullUpdate([s EXCEPT !.fibonacciPreviewEnd =
             {PreviewPoint(x, y, PaneFibonacciPreviewTime(ts, x, t),
                           Val(CoordinateToPrice(y, Val(fv))))}])

\* PaneWidget._updateFibonacciPreview(currentX, currentY).
PaneUpdateFibonacciPreview(s, ts, fv, x, y, t) ==
    IF s.fibonacciStartPoint = {} \/ fv = {} \/ CoordinateToPrice(y, Val(fv)) = {}
    THEN s
    ELSE LightUpdate([s EXCEPT !.fibonacciPreviewEnd =
             {PreviewPoint(x, y, PaneFibonacciPreviewTime(ts, x, t),
                           Val(CoordinateToPrice(y, Val(fv))))}])

\* PaneWidget._setCrosshairPosition: the dot branch while the model says a
\* trendline is being drawn, else ChartModel.setAndSaveCurrentPosition.
SetCrosshairPosition(s, fv) ==
    IF s.mIsDrawingTrendline
    THEN IF fv # {} THEN CursorUpdate([s EXCEPT !.showCenterDot = TRUE]) ELSE s
    ELSE CursorUpdate(s)

\* PaneWidget.mouseMoveEvent with no drag in progress.
MouseMoveEvent(s, ts, fv, x, y, t) ==
    IF s.mIsDrawingTrendline
    THEN SetCrosshairPosition(
             IF s.mTrendlineStartPoint # {}
             THEN PaneUpdateTrendlinePreview(s, ts, fv, x, y, t) ELSE s, fv)
    ELSE IF s.isDrawingFibonacci
    THEN SetCrosshairPosition(
             IF s.fibonacciStartPoint # {}
             THEN PaneUpdateFibonacciPreview(s, ts, fv, x, y, t) ELSE s, fv)
    ELSE SetCrosshairPosition(s, fv)

\* ChartWidget._updateTrendlinePreview(x, y, pane).
WidgetUpdateTrendlinePreview(s, ts, fv, x, y, t) ==
    IF fv = {} \/ CoordinateToPrice(y, Val(fv)) = {}
    THEN s
    ELSE LightUpdate([s EXCEPT !.trendlinePreviewEnd =
             {PreviewPoint(x, y, WidgetPreviewTime(ts, x, t),
                           Val(CoordinateToPrice(y, Val(fv))))}])

\* ChartWidget._updateFibonacciPreview(x, y, pane).
WidgetUpdateFibonacciPreview(s, ts, fv, x, y, t) ==
    IF fv = {} \/ CoordinateToPrice(y, Val(fv)) = {}
    THEN s
    ELSE LightUpdate([s EXCEPT !.fibonacciPreviewEnd =
             {PreviewPoint(x, y, WidgetPreviewTime(ts, x, t),
                           Val(CoordinateToPrice(y, Val(fv))))}])

\* ChartWidget.setAndSaveCurrentPosition(x, y, event, pane).
SetAndSaveCurrentPosition(s, ts, fv, x, y, t) ==
    LET s1 == IF s.isDrawingTrendline /\ s.trendlineStartPoint # {}
              THEN WidgetUpdateTrendlinePreview(s, ts, fv, x, y, t) ELSE s
        s2 == IF s1.isDrawingFibonacci /\ s1.fibonacciStartPoint # {}
              THEN WidgetUpdateFibonacciPreview(s1, ts, fv, x, y, t) ELSE s1
    IN CursorUpdate(s2)

\* ------------------------------------------------------- input handlers
\* Pointer positions the input events carry: inside the data and beyond the last
\* bar of a two-point time scale (bars at 10px and 20px).
Pointers == {[x |-> 10, y |-> 10], [x |-> 24, y |-> 40]}

\* History record of an input: what it was and what it found (which tool was
\* active, whether that tool held its first anchor).
InputRecord(kind, x, y) ==
    [kind |-> kind, x |-> x, y |-> y,
     tool |-> IF isDrawingTrendline THEN "trendline"
              ELSE IF isDrawingFibonacci THEN "fibonacci" ELSE "idle",
     anchor |-> IF isDrawingTrendline THEN trendlineStartPoint # {}
                ELSE isDrawingFibonacci /\ fibonacciStartPoint # {}]

\* The user presses the trendline button of the toolbar.
PressTrendlineButton ==
    /\ ~destroyed
    /\ Set(TrendlineButtonClick(St))
    /\ lastInput' = {InputRecord("trendlineButton", 0, 0)}
    /\ UNCHANGED <<timeScale, firstValue, now, extrapolated, hit>>
    /\ UNCHANGED hostVars /\ UNCHANGED drawVars /\ lastDraw' = {} /\ lastCall' = {}

\* The user presses the Fibonacci button of the toolbar.
PressFibonacciButton ==
    /\ ~destroyed
    /\ Set(FibonacciButtonClick(St))
    /\ lastInput' = {InputRecord("fibonacciButton", 0, 0)}
    /\ UNCHANGED <<timeScale, firstValue, now, extrapolated, hit>>
    /\ UNCHANGED hostVars /\ UNCHANGED drawVars /\ lastDraw' = {} /\ lastCall' = {}

\* A click would commit an annotation: a tool is awaiting its second click.
AwaitingSecondClick ==
    \/ isDrawingTrendline /\ trendlineStartPoint # {}
    \/ ~isDrawingTrendline /\ isDrawingFibonacci /\ fibonacciStartPoint # {}

\* PaneWidget.mouseClickEvent -> _fireMouseClickDelegate -> _onPaneWidgetClicked.
PaneClick ==
    /\ ~destroyed
    /\ AwaitingSecondClick /\ firstValue # {} => nextId < MaxAnnotations
    /\ \E p \in Pointers :
           /\ Set(OnPaneWidgetClicked(St, timeScale, firstValue, p.x, p.y, now))
           /\ lastInput' = {InputRecord("click", p.x, p.y)}
    /\ UNCHANGED <<timeScale, firstValue, now, extrapolated, hit>>
    /\ UNCHANGED hostVars /\ UNCHANGED drawVars /\ lastDraw' = {} /\ lastCall' = {}

\* PaneWidget.mouseMoveEvent.
PaneMouseMove ==
    /\ ~destroyed
    /\ \E p \in Pointers :
           Set(MouseMoveEvent(St, timeScale, firstValue, p.x, p.y, now))
    /\ lastInput' = {}
    /\ UNCHANGED <<timeScale, firstValue, now, extrapolated, hit>>
    /\ UNCHANGED hostVars /\ UNCHANGED drawVars /\ lastDraw' = {} /\ lastCall' = {}

\* ChartWidget.setAndSaveCurrentPosition, the widget-level pointer update.
ChartSetPosition ==
    /\ ~destroyed
    /\ \E p \in Pointers :
           Set(SetAndSaveCurrentPosition(St, timeScale, firstValue, p.x, p.y, now))
    /\ lastInput' = {}
    /\ UNCHANGED <<timeScale, firstValue, now, extrapolated, hit>>
    /\ UNCHANGED hostVars /\ UNCHANGED drawVars /\ lastDraw' = {} /\ lastCall' = {}

\* The host application changes options.crosshair.mode.
HostSetCrosshairMode ==
    /\ ~destroyed
    /\ \E mode \in CrosshairModes \ {crosshairMode} : Set(ApplyCrosshairMode(St, mode))
    /\ lastInput' = {}
    /\ UNCHANGED <<timeScale, firstValue, now, extrapolated, hit>>
    /\ UNCHANGED hostVars /\ UNCHANGED drawVars /\ lastDraw' = {} /\ lastCall' = {}

\* ---------------------------------------------------------- initial states
\* { selectedTrendlineId: null, dragState: null }, and the same for Fibonacci.
NoSelection == [selectedId |-> {}, dragState |-> {}]

EmptyBySymbol == [sym \in Symbols |-> {}]

\* _getOrCreatePane(0) of the constructor: the main pane, without series.
MainPaneOnly == <<[id |-> 0, series |-> {}, priceScales |-> DefaultScaleOptions]>>

TimeScaleOf(points, barSpacing, rightOffset) ==
    [points |-> points, barSpacing |-> barSpacing, rightOffset |-> rightOffset,
     width |-> 40]

\* The data points of a time scale that holds n bars: times 100, 200, ...
PointsUpTo(n) == [i \in 1..n |-> 100 * i]

\* CrosshairMode.Hidden: the crosshair is not displayed at all.
CrosshairModeHidden == 2
\* A CrosshairPaneView as constructed: invalidated, both guide lines
\* invisible, no centre dot; its renderer has drawn nothing yet.
\* updatedIn records the mode and the _showCenterDot flag the last
\* _updateImpl read.
NothingDrawn == [dot |-> FALSE, vertLine |-> FALSE, horzLine |-> FALSE]
InitialCrosshairView ==
    [invalidated |-> TRUE, vertLine |-> FALSE, horzLine |-> FALSE,
     showCenterDot |-> FALSE, updatedIn |-> {}, drawn |-> NothingDrawn]

\* defaultFibonacciOptions.levels, each fraction as thousandths; the pane
\* renderer carries the same list as a literal.
DefaultLevels ==
    <<[num |-> 0, den |-> 1000], [num |-> 236, den |-> 1000],
      [num |-> 382, den |-> 1000], [num |-> 500, den |-> 1000],
      [num |-> 618, den |-> 1000], [num |-> 786, den |-> 1000],
      [num |-> 1000, den |-> 1000]>>

\* Widget, toolbar and model once constructed and drawn, with the crosshair mode
\* the host's options ask for and the instrument the host has or has not set;
\* the panes apart.
InitWidget ==
    /\ invalidateMask = {} /\ drawPlanned = FALSE /\ drawRafId = 0 /\ rafQueue = 0
    /\ destroyed = FALSE /\ reqSinceFrame = 0 /\ invSinceFrame = 0
    /\ isDrawingTrendline = FALSE /\ trendlineStartPoint = {} /\ trendlinePreviewEnd = {}
    /\ isDrawingFibonacci = FALSE /\ fibonacciStartPoint = {} /\ fibonacciPreviewEnd = {}
    /\ originalCrosshairMode = {}
    /\ tbTrendlineActive = FALSE /\ tbFibonacciActive = FALSE
    /\ mIsDrawingTrendline = FALSE /\ mTrendlineStartPoint = {} /\ mTrendlinePreviewEnd = {}
    /\ crosshairMode \in CrosshairModes
    /\ modeBeforeActivation = {}
    /\ showCenterDot = FALSE
    /\ currentSymbol \in Symbols
    /\ paneSymbol = currentSymbol
    /\ pendingPanes = [i \in 0..MaxPanes |-> {}] /\ submitted = {} /\ lastPaint = {}
    /\ fibonacciLevels = [id \in 0..(MaxAnnotations - 1) |-> DefaultLevels]
    /\ trendlinesBySymbol = EmptyBySymbol /\ fibonacciBySymbol = EmptyBySymbol
    /\ savedTrendlines = SavePayload(EmptyBySymbol)
    /\ savedFibonacci = SavePayload(EmptyBySymbol)
    /\ nextId = 0
    /\ now = ClockStart
    /\ trendlineSelection = NoSelection /\ fibonacciSelection = NoSelection
    /\ lastInput = {} /\ extrapolated = {} /\ hit = {}
    /\ levels = {} /\ lastCall = {} /\ expected = EmptyBySymbol
    /\ startScrollingPos = {} /\ isScrolling = FALSE /\ timeScroll = {}
    /\ crosshairView = InitialCrosshairView
    /\ nextMaskId = 0 /\ paintedTimes = [id \in MaskIds |-> 0] /\ lastDraw = {}
    /\ storeFails = FALSE
    /\ storedTrendlines = SavePayload(EmptyBySymbol)
    /\ storedFibonacci = SavePayload(EmptyBySymbol)
    /\ pendingLoad = {} /\ thrown = FALSE
    /\ pendingIds = {}
    /\ pendingOps = <<>>
    /\ scaleOptions = DefaultScaleOptions

\* The same with the main pane, the only pane of a new chart.
InitChart ==
    /\ InitWidget
    /\ panes = MainPaneOnly /\ paneDataMap = <<>> /\ nextPaneId = 1
    /\ paneSeparators = IF Len(panes) = 0 THEN 0 ELSE Len(panes) - 1
    /\ paneWidgets = [i \in DOMAIN panes |-> panes[i].id]

\* The drawing tools on a chart whose data is loaded or not: 0..MaxPoints bars,
\* price scale ready or not.
InitTool ==
    /\ InitChart
    /\ development = FALSE
    /\ \E n \in 0..MaxPoints : timeScale = TimeScaleOf(PointsUpTo(n), 10, 2)
    /\ firstValue \in {{}, {50}}

NextTool ==
    \/ PressTrendlineButton
    \/ PressFibonacciButton
    \/ PaneClick
    \/ PaneMouseMove
    \/ ChartSetPosition
    \/ HostSetCrosshairMode

SpecTool == InitTool /\ [][NextTool]_vars

\* The frame pipeline alone.
InitFrame ==
    /\ InitChart
    /\ development = FALSE
    /\ timeScale = TimeScaleOf(PointsUpTo(0), 10, 2)
    /\ firstValue = {}

NextFrame ==
    \/ \E level \in {LevelCursor, LevelLight, LevelFull} : Invalidate(level)
    \/ FrameCallback
    \/ TakeScreenshot
    \/ Destroy

SpecFrame == InitFrame /\ [][NextFrame]_vars

\* ------------------------------------------------------------ hit testing
\* PaneWidget: SELECTION_HIT_TOLERANCE and LINE_HIT_TOLERANCE, in pixels.
SELECTION_HIT_TOLERANCE == 8
LINE_HIT_TOLERANCE == 5

\* timeToIndex(time, true): the index of the point with exactly that time.
TimeToIndex(ts, time) ==
    LET found == {i \in 1..Len(ts.points) : ts.points[i] = time}
    IN IF found = {} THEN {} ELSE {Val(found) - 1}

\* PriceScale.priceToCoordinate(price, firstValue), inverse of coordinateToPrice.
PriceToCoordinate(price, fv) == {MaxPrice - price}

\* PaneWidget._forceExtrapolateCoordinate.
ForceExtrapolateCoordinate(ts, fv, targetTime, targetPrice) ==
    LET baseIndex == BaseIndex(ts)
        baseTime == IndexToTime(ts, baseIndex)
        baseCoord == IndexToCoordinate(ts, baseIndex)
        prevTime == IndexToTime(ts, baseIndex - 1)
        prevCoord == IndexToCoordinate(ts, baseIndex - 1)
    IN IF /\ baseTime # {} /\ baseCoord # {} /\ prevTime # {} /\ prevCoord # {}
          /\ Val(baseCoord) - Val(prevCoord) # 0
          /\ PriceToCoordinate(targetPrice, fv) # {}
       THEN {[x |-> Val(baseCoord)
                    + ((targetTime - Val(baseTime)) * (Val(baseCoord) - Val(prevCoord)))
                      \div (Val(baseTime) - Val(prevTime)),
              y |-> Val(PriceToCoordinate(targetPrice, fv))]}
       ELSE {}

\* A conversion that only looks the time up among the data points.
ConvertWithoutExtrapolation(ts, fv, targetTime, targetPrice) ==
    LET index == TimeToIndex(ts, targetTime)
    IN IF /\ index # {} /\ IndexToCoordinate(ts, Val(index)) # {}
          /\ PriceToCoordinate(targetPrice, fv) # {}
       THEN {[x |-> Val(IndexToCoordinate(ts, Val(index))),
              y |-> Val(PriceToCoordinate(targetPrice, fv))]}
       ELSE {}

\* PaneWidget._convertTimeAndPriceToCoordinates, used by the trendline hit test.
ConvertTimeAndPriceToCoordinates(ts, fv, targetTime, targetPrice) ==
    LET baseTime == IndexToTime(ts, BaseIndex(ts))
        index == TimeToIndex(ts, targetTime)
    IN IF baseTime # {} /\ targetTime > Val(baseTime)
       THEN ForceExtrapolateCoordinate(ts, fv, targetTime, targetPrice)
       ELSE IF /\ index # {} /\ IndexToCoordinate(ts, Val(index)) # {}
               /\ PriceToCoordinate(targetPrice, fv) # {}
       THEN {[x |-> Val(IndexToCoordinate(ts, Val(index))),
              y |-> Val(PriceToCoordinate(targetPrice, fv))]}
       ELSE ForceExtrapolateCoordinate(ts, fv, targetTime, targetPrice)

\* PaneWidget._timeAndPriceToCoordinates, used by the Fibonacci hit test.
TimeAndPriceToCoordinates(ts, fv, targetTime, targetPrice) ==
    LET baseTime == IndexToTime(ts, BaseIndex(ts))
        index == TimeToIndex(ts, targetTime)
    IN IF baseTime # {} /\ targetTime > Val(baseTime)
       THEN ForceExtrapolateCoordinate(ts, fv, targetTime, targetPrice)
       ELSE IF /\ index # {} /\ IndexToCoordinate(ts, Val(index)) # {}
               /\ PriceToCoordinate(targetPrice, fv) # {}
       THEN {[x |-> Val(IndexToCoordinate(ts, Val(index))),
              y |-> Val(PriceToCoordinate(targetPrice, fv))]}
       ELSE ForceExtrapolateCoordinate(ts, fv, targetTime, targetPrice)

\* Distances are kept as the exact square num / den of the value the code takes
\* the square root of; comparing squares orders the distances as the code does.
PointDistance(px, py, x, y) ==
    [num |-> (px - x) * (px - x) + (py - y) * (py - y), den |-> 1]

\* PaneWidget._distanceToLine: distance from (px, py) to the segment.
DistanceToLine(px, py, x1, y1, x2, y2) ==
    LET dx == x2 - x1
        dy == y2 - y1
        dot == (px - x1) * dx + (py - y1) * dy
        len == dx * dx + dy * dy
    IN IF dx = 0 /\ dy = 0
       THEN PointDistance(px, py, x1, y1)
       ELSE IF dot <= 0
       THEN PointDistance(px, py, x1, y1)
       ELSE IF dot >= len
       THEN PointDistance(px, py, x2, y2)
       ELSE [num |-> PointDistance(px, py, x1, y1).num * len - dot * dot, den |-> len]

\* "dist <= tolerance" and "dist < closestDistance" (Infinity while no hit).
WithinTolerance(d, tolerance) == d.num <= tolerance * tolerance * d.den
Closer(d, e) == d.num * e.den < e.num * d.den
CloserThanClosest(d, closestHit) ==
    closestHit = {} \/ Closer(d, Val(closestHit).distance)

LineTestAllowedAlways(h) == TRUE

\* "Test hit on line if no point hit": closestHit === null || hitType === 'line'.
LineTestAllowed(h) == h = {} \/ Val(h).hitType = "line"

\* Body of the forEach of _hitTestTrendlines for one trendline.
TrendlineHitStep(closestHit, trendline, ts, fv, x, y) ==
    LET coords1 == ConvertTimeAndPriceToCoordinates(ts, fv, trendline.point1.time,
                                                    trendline.point1.value)
        coords2 == ConvertTimeAndPriceToCoordinates(ts, fv, trendline.point2.time,
                                                    trendline.point2.value)
    IN IF coords1 = {} \/ coords2 = {}
       THEN closestHit
       ELSE LET c1 == Val(coords1)
                c2 == Val(coords2)
                dist1 == PointDistance(x, y, c1.x, c1.y)
                h1 == IF /\ WithinTolerance(dist1, SELECTION_HIT_TOLERANCE)
                         /\ CloserThanClosest(dist1, closestHit)
                      THEN {[id |-> trendline.id, hitType |-> "point1",
                             distance |-> dist1]}
                      ELSE closestHit
                dist2 == PointDistance(x, y, c2.x, c2.y)
                h2 == IF /\ WithinTolerance(dist2, SELECTION_HIT_TOLERANCE)
                         /\ CloserThanClosest(dist2, h1)
                      THEN {[id |-> trendline.id, hitType |-> "point2",
                             distance |-> dist2]}
                      ELSE h1
                lineDist == DistanceToLine(x, y, c1.x, c1.y, c2.x, c2.y)
            IN IF LineTestAllowed(h2)
               THEN IF /\ WithinTolerance(lineDist, LINE_HIT_TOLERANCE)
                       /\ CloserThanClosest(lineDist, h2)
                    THEN {[id |-> trendline.id, hitType |-> "line",
                           distance |-> lineDist]}
                    ELSE h2
               ELSE h2

\* Body of the forEach of _hitTestFibonacci for one retracement.
FibonacciHitStep(closestHit, fibonacci, ts, fv, x, y) ==
    LET coords1 == TimeAndPriceToCoordinates(ts, fv, fibonacci.point1.time,
                                             fibonacci.point1.value)
        coords2 == TimeAndPriceToCoordinates(ts, fv, fibonacci.point2.time,
                                             fibonacci.point2.value)
    IN IF coords1 = {} \/ coords2 = {}
       THEN closestHit
       ELSE LET c1 == Val(coords1)
                c2 == Val(coords2)
                topRightDist == PointDistance(x, y, Max(c1.x, c2.x), Min(c1.y, c2.y))
                h1 == IF /\ WithinTolerance(topRightDist, SELECTION_HIT_TOLERANCE)
                         /\ CloserThanClosest(topRightDist, closestHit)
                      THEN {[id |-> fibonacci.id, hitType |-> "topRight",
                             distance |-> topRightDist]}
                      ELSE closestHit
                bottomLeftDist == PointDistance(x, y, Min(c1.x, c2.x), Max(c1.y, c2.y))
            IN IF /\ WithinTolerance(bottomLeftDist, SELECTION_HIT_TOLERANCE)
                  /\ CloserThanClosest(bottomLeftDist, h1)
               THEN {[id |-> fibonacci.id, hitType |-> "bottomLeft",
                      distance |-> bottomLeftDist]}
               ELSE h1

\* Map.forEach visits the entries in insertion order; ids grow with insertion.
RECURSIVE MapOrder(_)
MapOrder(m) ==
    IF m = {}
    THEN <<>>
    ELSE LET first == CHOOSE a \in m : \A b \in m : a.id <= b.id
         IN <<first>> \o MapOrder(m \ {first})

RECURSIVE ForEachTrendline(_, _, _, _, _, _)
ForEachTrendline(order, closestHit, ts, fv, x, y) ==
    IF order = <<>>
    THEN closestHit
    ELSE ForEachTrendline(Tail(order),
                          TrendlineHitStep(closestHit, Head(order), ts, fv, x, y),
                          ts, fv, x, y)

RECURSIVE ForEachFibonacci(_, _, _, _, _, _)
ForEachFibonacci(order, closestHit, ts, fv, x, y) ==
    IF order = <<>>
    THEN closestHit
    ELSE ForEachFibonacci(Tail(order),
                          FibonacciHitStep(closestHit, Head(order), ts, fv, x, y),
                          ts, fv, x, y)

\* PaneWidget._hitTestTrendlines(x, y) over the map iterated in `order`.
HitTestTrendlines(order, ts, fv, x, y) ==
    IF order = <<>> \/ fv = {} THEN {} ELSE ForEachTrendline(order, {}, ts, fv, x, y)

\* PaneWidget._hitTestFibonacci(x, y) over the map iterated in `order`.
HitTestFibonacci(order, ts, fv, x, y) ==
    IF order = <<>> \/ fv = {} THEN {} ELSE ForEachFibonacci(order, {}, ts, fv, x, y)

\* ------------------------------------------------- selection and dragging
\* The annotation objects are shared between ChartModel and PaneWidget: the pane
\* holds the map of the current symbol (updateTrendlines, updateFibonacciRetracements)
\* and a drag writes into the data object of the annotation in place.  The anchors
\* are read and written as data.point1 / data._internal_point1 (and .time / .value
\* likewise): two spellings of the same property.
PaneTrendlines(s) == s.trendlinesBySymbol[s.paneSymbol]
PaneFibonacci(s) == s.fibonacciBySymbol[s.paneSymbol]

\* Map.get(id): {} when the map has no entry for id.
MapGet(m, id) == {a \in m : a.id = id}

\* PaneWidget.selectTrendline / clearTrendlineSelection.
SelectTrendline(s, id) ==
    LightUpdate([s EXCEPT !.trendlineSelection.selectedId = {id}])
ClearTrendlineSelection(s) ==
    LightUpdate([s EXCEPT !.trendlineSelection = NoSelection])

\* PaneWidget.selectFibonacci / clearFibonacciSelection.
SelectFibonacci(s, id) ==
    LightUpdate([s EXCEPT !.fibonacciSelection.selectedId = {id}])
ClearFibonacciSelection(s) ==
    LightUpdate([s EXCEPT !.fibonacciSelection = NoSelection])

\* PaneWidget._handleTrendlineMouseDown(hit, event).
HandleTrendlineMouseDown(s, h, x, y) ==
    LET s1 == SelectTrendline(s, h.id)
        trendline == MapGet(PaneTrendlines(s1), h.id)
    IN IF trendline = {}
       THEN s1
       ELSE LET data == Val(trendline)
            IN IF h.hitType \in {"point1", "point2"}
               THEN LET pointIndex == IF h.hitType = "point1" THEN 0 ELSE 1
                        originalPoint == IF pointIndex = 0 THEN data.point1 ELSE data.point2
                    IN [s1 EXCEPT !.trendlineSelection.dragState =
                           {[isDragging |-> TRUE, dragType |-> "point",
                             dragPointIndex |-> pointIndex,
                             startMousePos |-> [x |-> x, y |-> y],
                             originalPoint |-> originalPoint,
                             originalLine |-> {}]}]
               ELSE [s1 EXCEPT !.trendlineSelection.dragState =
                           {[isDragging |-> TRUE, dragType |-> "line",
                             dragPointIndex |-> -1,
                             startMousePos |-> [x |-> x, y |-> y],
                             originalPoint |-> [time |-> 0, value |-> 0],
                             originalLine |-> {[point1 |-> data.point1,
                                                point2 |-> data.point2]}]}]

\* PaneWidget._handleFibonacciMouseDown(hit, event).
HandleFibonacciMouseDown(s, h, x, y) ==
    LET s1 == SelectFibonacci(s, h.id)
        fibonacci == MapGet(PaneFibonacci(s1), h.id)
    IN IF fibonacci = {}
       THEN s1
       ELSE [s1 EXCEPT !.fibonacciSelection.dragState =
                {[isDragging |-> TRUE, dragCorner |-> h.hitType,
                  startMousePos |-> [x |-> x, y |-> y],
                  originalPoints |-> [point1 |-> Val(fibonacci).point1,
                                      point2 |-> Val(fibonacci).point2]]}]

\* PaneWidget.mouseDownEvent.
MouseDownEvent(s, ts, fv, x, y) ==
    LET trendlineHit == HitTestTrendlines(MapOrder(PaneTrendlines(s)), ts, fv, x, y)
        fibonacciHit == HitTestFibonacci(MapOrder(PaneFibonacci(s)), ts, fv, x, y)
    IN IF trendlineHit # {}
       THEN HandleTrendlineMouseDown(s, Val(trendlineHit), x, y)
       ELSE IF fibonacciHit # {}
       THEN HandleFibonacciMouseDown(s, Val(fibonacciHit), x, y)
       ELSE SetCrosshairPosition(ClearFibonacciSelection(ClearTrendlineSelection(s)), fv)

\* "currentTime" of the two drag handlers: the time of the bar nearest to the
\* pointer, the pane's extrapolation when that index holds no bar.
DragTime(ts, x, t) ==
    LET index == CoordinateToIndex(ts, x)
    IN IF index # {} /\ IndexToTime(ts, Val(index)) # {}
       THEN Val(IndexToTime(ts, Val(index)))
       ELSE PaneExtrapolateTimeFromCoordinate(ts, x, t)

DragPointAlwaysSecond(data, dragPointIndex, currentTime, currentPrice) ==
    [data EXCEPT !.point2 = [time |-> currentTime, value |-> currentPrice]]

\* _handleTrendlineDrag, dragType 'point': the writes into the data object.
DragPoint(data, dragPointIndex, currentTime, currentPrice) ==
    IF dragPointIndex = 0
    THEN [data EXCEPT !.point1 = [time |-> currentTime, value |-> currentPrice]]
    ELSE [data EXCEPT !.point2 = [time |-> currentTime, value |-> currentPrice]]

TranslateLineSecondOnly(data, originalLine, deltaTime, deltaPrice) ==
    [data EXCEPT !.point2 = [time |-> originalLine.point2.time + deltaTime,
                             value |-> originalLine.point2.value + deltaPrice]]

\* _handleTrendlineDrag, dragType 'line': "Move both points by the same offset".
TranslateLine(data, originalLine, deltaTime, deltaPrice) ==
    [data EXCEPT !.point1 = [time |-> originalLine.point1.time + deltaTime,
                             value |-> originalLine.point1.value + deltaPrice],
                 !.point2 = [time |-> originalLine.point2.time + deltaTime,
                             value |-> originalLine.point2.value + deltaPrice]]

\* PaneWidget._handleTrendlineDrag(event).
HandleTrendlineDrag(s, ts, fv, x, y, t) ==
    LET dragState == s.trendlineSelection.dragState
        selectedId == s.trendlineSelection.selectedId
        trendline == IF selectedId = {} THEN {} ELSE MapGet(PaneTrendlines(s), Val(selectedId))
        store(data) == [s EXCEPT !.trendlinesBySymbol[s.paneSymbol] = MapSet(@, data)]
    IN IF dragState = {} \/ selectedId = {} \/ trendline = {}
       THEN s
       ELSE IF Val(dragState).dragType = "point"
       THEN IF fv = {} \/ CoordinateToPrice(y, Val(fv)) = {}
            THEN s
            ELSE LightUpdate(store(DragPoint(Val(trendline), Val(dragState).dragPointIndex,
                                             DragTime(ts, x, t),
                                             Val(CoordinateToPrice(y, Val(fv))))))
       ELSE IF Val(dragState).originalLine = {} \/ fv = {}
            THEN s
            ELSE LET start == Val(dragState).startMousePos
                     originalMouseTime == PaneExtrapolateTimeFromCoordinate(ts, start.x, t)
                     newMouseTime == PaneExtrapolateTimeFromCoordinate(ts, x, t)
                     deltaTime == newMouseTime - originalMouseTime
                     originalMousePrice == Val(CoordinateToPrice(start.y, Val(fv)))
                     newMousePrice == Val(CoordinateToPrice(y, Val(fv)))
                     deltaPrice == newMousePrice - originalMousePrice
                 IN LightUpdate(store(TranslateLine(Val(trendline),
                                                    Val(Val(dragState).originalLine),
                                                    deltaTime, deltaPrice)))

\* _handleFibonacciDrag: the writes into the data object; 'topRight' writes
\* point2 ("assuming it's the top-right"), 'bottomLeft' writes point1.
DragCorner(data, dragCorner, currentTime, currentPrice) ==
    IF dragCorner = "topRight"
    THEN [data EXCEPT !.point2 = [time |-> currentTime, value |-> currentPrice]]
    ELSE [data EXCEPT !.point1 = [time |-> currentTime, value |-> currentPrice]]

\* PaneWidget._handleFibonacciDrag(event).
HandleFibonacciDrag(s, ts, fv, x, y, t) ==
    LET dragState == s.fibonacciSelection.dragState
        selectedId == s.fibonacciSelection.selectedId
        fibonacci == IF selectedId = {} THEN {} ELSE MapGet(PaneFibonacci(s), Val(selectedId))
    IN IF dragState = {} \/ selectedId = {} \/ fibonacci = {}
       THEN s
       ELSE IF fv = {} \/ CoordinateToPrice(y, Val(fv)) = {}
       THEN s
       ELSE LightUpdate(
                [s EXCEPT !.fibonacciBySymbol[s.paneSymbol] =
                     MapSet(@, DragCorner(Val(fibonacci), Val(dragState).dragCorner,
                                          DragTime(ts, x, t),
                                          Val(CoordinateToPrice(y, Val(fv)))))])

\* PaneWidget.mouseMoveEvent: the drag branches, then the handler without a drag.
MouseMoveEventOrDrag(s, ts, fv, x, y, t) ==
    IF s.trendlineSelection.dragState # {}
    THEN HandleTrendlineDrag(s, ts, fv, x, y, t)
    ELSE IF s.fibonacciSelection.dragState # {}
    THEN HandleFibonacciDrag(s, ts, fv, x, y, t)
    ELSE MouseMoveEvent(s, ts, fv, x, y, t)

\* TimeScale.isEmpty(): no width or no points.
TimeScaleIsEmpty(ts) == ts.width = 0 \/ Len(ts.points) = 0

\* chartOptions.handleScroll.pressedMouseMove, as the chart is created.
HandleScrollPressedMouseMove == TRUE

\* ChartModel.startScrollTime / scrollTimeTo / endScrollTime: the time scale
\* keeps the pixel the scroll started at and the pixel it was scrolled to.
StartScrollTime(s, x) == [s EXCEPT !.timeScroll = {[start |-> x, to |-> x]}]

ScrollTimeTo(s, x) ==
    IF s.timeScroll = {} THEN s
    ELSE [s EXCEPT !.timeScroll = {[start |-> Val(s.timeScroll).start, to |-> x]}]

EndScrollTime(s) == LightUpdate([s EXCEPT !.timeScroll = {}])

\* PaneWidget._pressedMouseTouchMoveEvent for a mouse event: the first pressed
\* move keeps its position, a pressed move at another position starts the
\* scroll, and every pressed move of a started scroll scrolls the time scale.
\* The default price scale is in auto-scale mode, which startScrollPrice and
\* scrollPriceTo leave alone.
PressedMouseTouchMoveEvent(s, ts, x, y) ==
    IF TimeScaleIsEmpty(ts) \/ ~HandleScrollPressedMouseMove
    THEN s
    ELSE LET s1 == IF s.startScrollingPos = {}
                   THEN [s EXCEPT !.startScrollingPos = {[x |-> x, y |-> y]}]
                   ELSE s
             s2 == IF ~s1.isScrolling /\ Val(s1.startScrollingPos) # [x |-> x, y |-> y]
                   THEN [StartScrollTime(s1, x) EXCEPT !.isScrolling = TRUE]
                   ELSE s1
         IN IF s2.isScrolling THEN ScrollTimeTo(s2, x) ELSE s2

\* PaneWidget._endScroll.
EndScroll(s) ==
    IF ~s.isScrolling
    THEN s
    ELSE EndScrollTime([s EXCEPT !.startScrollingPos = {}, !.isScrolling = FALSE])

\* PaneWidget.pressedMouseMoveEvent: only the trendline drag is handled here.
PressedMouseMoveEvent(s, ts, fv, x, y, t) ==
    IF s.trendlineSelection.dragState # {}
    THEN HandleTrendlineDrag(s, ts, fv, x, y, t)
    ELSE SetCrosshairPosition(PressedMouseTouchMoveEvent(s, ts, x, y), fv)

\* PaneWidget.mouseUpEvent: ends a Fibonacci drag; a trendline drag state stays.
MouseUpEvent(s) ==
    IF s.fibonacciSelection.dragState # {}
    THEN [s EXCEPT !.fibonacciSelection.dragState = {}]
    ELSE EndScroll(s)

\* --------------------------------------------- pixel-to-time paths, applied
\* Pixels handed to the pixel-to-time paths.
Pixels == {15, 24, 30, 45}

\* New data: one more bar, 100 or 200 time units after the last one.
AddPoint ==
    /\ ~destroyed
    /\ Len(timeScale.points) < MaxPoints
    /\ \E step \in {100, 200} :
           LET last == IF Len(timeScale.points) = 0
                       THEN 0 ELSE timeScale.points[Len(timeScale.points)]
           IN timeScale' = [timeScale EXCEPT !.points = Append(@, last + step)]
    /\ Set(FullUpdate(St))
    /\ lastInput' = {} /\ extrapolated' = {} /\ hit' = {}
    /\ UNCHANGED <<firstValue, now>>
    /\ UNCHANGED hostVars /\ UNCHANGED drawVars /\ lastDraw' = {} /\ lastCall' = {}

\* Zoom: the bar spacing changes.
SetBarSpacing ==
    /\ ~destroyed
    /\ \E barSpacing \in {5, 10} \ {timeScale.barSpacing} :
           timeScale' = [timeScale EXCEPT !.barSpacing = barSpacing]
    /\ Set(LightUpdate(St))
    /\ lastInput' = {} /\ extrapolated' = {} /\ hit' = {}
    /\ UNCHANGED <<firstValue, now>>
    /\ UNCHANGED hostVars /\ UNCHANGED drawVars /\ lastDraw' = {} /\ lastCall' = {}

\* The wall clock advances.
Tick ==
    /\ now < ClockStart + MaxCount
    /\ now' = now + 1
    /\ lastInput' = {} /\ extrapolated' = {} /\ hit' = {}
    /\ UNCHANGED <<timeScale, firstValue>>
    /\ UNCHANGED hostVars /\ UNCHANGED drawVars /\ lastDraw' = {} /\ lastCall' = {}
    /\ Set(St)

\* Each path that turns a pixel into a time, evaluated for the same pixel on
\* the same time scale at the same instant; back is the anchor the click
\* stores (at price 10), converted to pane coordinates again.
ResolvePixel ==
    /\ ~destroyed
    /\ \E x \in Pixels :
           extrapolated' =
               {[x |-> x,
                 click |-> ClickTime(timeScale, x, CoordinateToIndex(timeScale, x), now),
                 widget |-> ExtrapolateTimeFromCoordinate(timeScale, x, now),
                 drag |-> PaneExtrapolateTimeFromCoordinate(timeScale, x, now),
                 trendlinePreview |-> PaneTrendlinePreviewTime(timeScale, x, now),
                 fibonacciPreview |-> PaneFibonacciPreviewTime(timeScale, x, now),
                 back |-> ConvertTimeAndPriceToCoordinates(
                              timeScale, firstValue,
                              ClickTime(timeScale, x,
                                        CoordinateToIndex(timeScale, x), now),
                              10)]}
    /\ lastInput' = {} /\ hit' = {}
    /\ UNCHANGED <<timeScale, firstValue, now>>
    /\ UNCHANGED hostVars /\ UNCHANGED drawVars /\ lastDraw' = {} /\ lastCall' = {}
    /\ Set(St)

InitExtrap ==
    /\ InitChart
    /\ development = FALSE
    /\ timeScale = TimeScaleOf(PointsUpTo(0), 10, 2)
    /\ firstValue = {50}

NextExtrap ==
    \/ AddPoint
    \/ SetBarSpacing
    \/ Tick
    \/ ResolvePixel

SpecExtrap == InitExtrap /\ [][NextExtrap]_vars

\* --------------------------------------------------- hit tests, applied
\* Anchors of the annotations handed to the model, and pointer positions.
AnchorTimes == {100, 200, 300}
AnchorValues == {43, 49}
Anchors == [time : AnchorTimes, value : AnchorValues]
HitPointers == {[x |-> 20, y |-> 50], [x |-> 12, y |-> 55], [x |-> 20, y |-> 51]}

\* ChartModel.addTrendline(data) called with a fresh id and the given anchors.
AddTrendlineAt(point1, point2) ==
    /\ ~destroyed
    /\ nextId < MaxAnnotations
    /\ Set(AddTrendline([St EXCEPT !.nextId = @ + 1],
                        [id |-> nextId, point1 |-> point1, point2 |-> point2]))
    /\ lastInput' = {} /\ extrapolated' = {} /\ hit' = {}
    /\ UNCHANGED <<timeScale, firstValue, now>>
    /\ UNCHANGED hostVars /\ UNCHANGED drawVars /\ lastDraw' = {} /\ lastCall' = {}

ModelAddTrendline == \E point1 \in Anchors, point2 \in Anchors : AddTrendlineAt(point1, point2)

\* ChartModel.addFibonacci(data) called with a fresh id and the given anchors.
AddFibonacciAt(point1, point2) ==
    /\ ~destroyed
    /\ nextId < MaxAnnotations
    /\ Set(AddFibonacci([St EXCEPT !.nextId = @ + 1],
                        [id |-> nextId, point1 |-> point1, point2 |-> point2]))
    /\ lastInput' = {} /\ extrapolated' = {} /\ hit' = {}
    /\ UNCHANGED <<timeScale, firstValue, now>>
    /\ UNCHANGED hostVars /\ UNCHANGED drawVars /\ lastDraw' = {} /\ lastCall' = {}

ModelAddFibonacci == \E point1 \in Anchors, point2 \in Anchors : AddFibonacciAt(point1, point2)

\* The two hit tests of PaneWidget.mouseDownEvent at one pointer position, over
\* the current symbol's maps.
HitTest ==
    /\ ~destroyed
    /\ \E p \in HitPointers :
           hit' = {[x |-> p.x, y |-> p.y,
                    trendline |-> HitTestTrendlines(
                        MapOrder(trendlinesBySymbol[currentSymbol]),
                        timeScale, firstValue, p.x, p.y),
                    fibonacci |-> HitTestFibonacci(
                        MapOrder(fibonacciBySymbol[currentSymbol]),
                        timeScale, firstValue, p.x, p.y)]}
    /\ lastInput' = {} /\ extrapolated' = {}
    /\ UNCHANGED <<timeScale, firstValue, now>>
    /\ UNCHANGED hostVars /\ UNCHANGED drawVars /\ lastDraw' = {} /\ lastCall' = {}
    /\ Set(St)

InitHit ==
    /\ InitChart
    /\ development = FALSE
    /\ timeScale = TimeScaleOf(PointsUpTo(2), 10, 2)
    /\ firstValue = {50}

NextHit ==
    \/ ModelAddTrendline
    \/ ModelAddFibonacci
    \/ HitTest

SpecHit == InitHit /\ [][NextHit]_vars

\* --------------------------------------------------------- drags, applied
\* Pointer positions of the mouse events: the pixel of the anchor (200, 49), a
\* pixel away from every annotation, and the pixel of the anchor (300, 49).
DragPointers == {[x |-> 20, y |-> 51], [x |-> 24, y |-> 40], [x |-> 30, y |-> 51]}

\* The user presses the mouse button over the pane.
PaneMouseDown ==
    /\ ~destroyed
    /\ \E p \in DragPointers :
           /\ Set(MouseDownEvent(St, timeScale, firstValue, p.x, p.y))
           /\ lastInput' = {InputRecord("mouseDown", p.x, p.y)}
    /\ UNCHANGED <<timeScale, firstValue, now, extrapolated, hit>>
    /\ UNCHANGED hostVars /\ UNCHANGED drawVars /\ lastDraw' = {} /\ lastCall' = {}

\* The pointer moves over the pane (mouseMoveEvent).
PaneMouseMoveOrDrag ==
    /\ ~destroyed
    /\ \E p \in DragPointers :
           /\ Set(MouseMoveEventOrDrag(St, timeScale, firstValue, p.x, p.y, now))
           /\ lastInput' = {InputRecord("mouseMove", p.x, p.y)}
    /\ UNCHANGED <<timeScale, firstValue, now, extrapolated, hit>>
    /\ UNCHANGED hostVars /\ UNCHANGED drawVars /\ lastDraw' = {} /\ lastCall' = {}

\* The pointer moves with the button held (pressedMouseMoveEvent).
PanePressedMouseMove ==
    /\ ~destroyed
    /\ \E p \in DragPointers :
           /\ Set(PressedMouseMoveEvent(St, timeScale, firstValue, p.x, p.y, now))
           /\ lastInput' = {InputRecord("pressedMouseMove", p.x, p.y)}
    /\ UNCHANGED <<timeScale, firstValue, now, extrapolated, hit>>
    /\ UNCHANGED hostVars /\ UNCHANGED drawVars /\ lastDraw' = {} /\ lastCall' = {}

\* The user releases the mouse button.
PaneMouseUp ==
    /\ ~destroyed
    /\ Set(MouseUpEvent(St))
    /\ lastInput' = {InputRecord("mouseUp", 0, 0)}
    /\ UNCHANGED <<timeScale, firstValue, now, extrapolated, hit>>
    /\ UNCHANGED hostVars /\ UNCHANGED drawVars /\ lastDraw' = {} /\ lastCall' = {}

\* ChartModel.addTrendline / addFibonacci on a chart that has no annotation yet:
\* the drags are studied on a chart with a single annotation.
DragAnchors == {[time |-> 100, value |-> 43], [time |-> 200, value |-> 49],
                [time |-> 300, value |-> 49]}

AddOnlyTrendline ==
    /\ nextId = 0
    /\ \E point1 \in DragAnchors, point2 \in DragAnchors : AddTrendlineAt(point1, point2)

AddOnlyFibonacci ==
    /\ nextId = 0
    /\ \E point1 \in DragAnchors, point2 \in DragAnchors : AddFibonacciAt(point1, point2)

\* A drawn chart with two bars (at 10px and 20px) and a ready price scale.
InitDrag ==
    /\ InitChart
    /\ development = FALSE
    /\ crosshairMode = CrosshairModeNormal
    /\ timeScale = TimeScaleOf(PointsUpTo(2), 10, 2)
    /\ firstValue = {50}

NextDrag ==
    \/ AddOnlyTrendline
    \/ AddOnlyFibonacci
    \/ PaneMouseDown
    \/ PaneMouseMoveOrDrag
    \/ PanePressedMouseMove
    \/ PaneMouseUp

SpecDrag == InitDrag /\ [][NextDrag]_vars

\* ------------------------------------------------------- Fibonacci levels
\* "const baseLevelPrice = isUptrend ? point2.value : point1.value".
BaseLevelPrice(data) ==
    IF data.point2.value > data.point1.value
    THEN data.point2.value ELSE data.point1.value

LevelPriceAdded(isUptrend, baseLevelPrice, priceRange, level) ==
    [num |-> baseLevelPrice * level.den + priceRange * level.num, den |-> level.den]

\* "isUptrend ? baseLevelPrice - retracement : baseLevelPrice + retracement",
\* with retracement = priceRange * level; the price is a fraction num / den.
LevelPrice(isUptrend, baseLevelPrice, priceRange, level) ==
    IF isUptrend
    THEN [num |-> baseLevelPrice * level.den - priceRange * level.num,
          den |-> level.den]
    ELSE [num |-> baseLevelPrice * level.den + priceRange * level.num,
          den |-> level.den]

\* FibonacciRetracement.calculateLevels over options.levels.
CalculateLevels(data, optionLevels) ==
    LET priceRange == Abs(data.point2.value - data.point1.value)
        isUptrend == data.point2.value > data.point1.value
        baseLevelPrice == BaseLevelPrice(data)
    IN [i \in DOMAIN optionLevels |->
           [level |-> optionLevels[i],
            price |-> LevelPrice(isUptrend, baseLevelPrice, priceRange,
                                 optionLevels[i])]]

\* PaneWidget._drawFibonacciRetracements: the level prices it draws lines at,
\* computed by the renderer itself from the two anchor prices.
DrawnLevels(data) ==
    LET priceRange == Abs(data.point2.value - data.point1.value)
        isUptrend == data.point2.value > data.point1.value
        baseLevelPrice == IF isUptrend THEN data.point2.value ELSE data.point1.value
    IN [i \in DOMAIN DefaultLevels |->
           [level |-> DefaultLevels[i],
            price |-> LevelPrice(isUptrend, baseLevelPrice, priceRange,
                                 DefaultLevels[i])]]

\* Anchor prices of the retracements whose levels are evaluated.
LevelPrices == {100, 150, 200}

\* ChartModel.addFibonacci with the anchors at the two bars.
AddFibonacciWithPrices ==
    \E value1 \in LevelPrices, value2 \in LevelPrices :
        AddFibonacciAt([time |-> 100, value |-> value1],
                       [time |-> 200, value |-> value2])

\* calculateLevels() of one retracement of the current symbol, and the render
\* of the same retracement.
EvaluateLevels ==
    /\ ~destroyed
    /\ \E f \in fibonacciBySymbol[currentSymbol] :
           levels' = {[data |-> f,
                       base |-> BaseLevelPrice(f),
                       model |-> CalculateLevels(f, DefaultLevels),
                       renderer |-> DrawnLevels(f)]}
    /\ lastInput' = {} /\ UNCHANGED drawVars /\ lastDraw' = {} /\ lastCall' = {}
    /\ UNCHANGED <<timeScale, firstValue, now, extrapolated, hit, expected>>
    /\ Set(St)

InitLevels ==
    /\ InitChart
    /\ development = FALSE
    /\ timeScale = TimeScaleOf(PointsUpTo(2), 10, 2)
    /\ firstValue = {50}

NextLevels ==
    \/ AddFibonacciWithPrices
    \/ EvaluateLevels

SpecLevels == InitLevels /\ [][NextLevels]_vars

\* ------------------------------------------------- the model's interface
\* The load of _loadTrendlinesFromStorage / _loadFibonacciFromStorage: each
\* symbol of the stored record that has annotations replaces that symbol's map.
LoadInto(bySymbol, payload) ==
    [sym \in DOMAIN bySymbol |->
        IF PayloadOf(payload, sym) # {} THEN payload[sym] ELSE bySymbol[sym]]

\* _loadFibonacciFromStorage: localStorage.getItem and the rebuild of the maps,
\* inside try/catch.
LoadFibonacciFromStorage(s) ==
    CatchAndLog(IF s.storeFails
                THEN [s EXCEPT !.thrown = TRUE]
                ELSE [s EXCEPT !.fibonacciBySymbol = LoadInto(@, s.storedFibonacci)])

\* _loadTrendlinesFromStorage up to the return of its promise: the request is
\* outstanding. It is served before every save made later, so it will deliver
\* the record the store holds now. A store that fails either throws in
\* indexedDB.open (the promise rejects, nothing is outstanding) or answers with
\* an error event (the promise resolves without data).
StartLoadTrendlines(s, openThrows) ==
    IF s.storeFails
    THEN IF openThrows
         THEN CatchAndLog([s EXCEPT !.thrown = TRUE, !.pendingLoad = {}])
         ELSE [s EXCEPT !.pendingLoad = {[failed |-> TRUE, content |-> <<>>]}]
    ELSE [s EXCEPT !.pendingLoad = {[failed |-> FALSE, content |-> s.storedTrendlines]}]

\* new ChartModel(...) for a new ChartWidget: fresh fields, the main pane, then
\* the two loads.
ConstructorBody(s, openThrows) ==
    LET fresh == [s EXCEPT !.invalidateMask = {}, !.drawPlanned = FALSE,
                           !.drawRafId = 0, !.rafQueue = 0, !.destroyed = FALSE,
                           !.reqSinceFrame = 0, !.invSinceFrame = 0,
                           !.currentSymbol = "",
                           !.trendlinesBySymbol = EmptyBySymbol,
                           !.fibonacciBySymbol = EmptyBySymbol,
                           !.trendlineSelection = NoSelection,
                           !.fibonacciSelection = NoSelection,
                           !.thrown = FALSE,
                           !.panes = <<>>, !.paneDataMap = <<>>, !.nextPaneId = 1,
                           !.scaleOptions = DefaultScaleOptions,
                           !.pendingOps = <<>>, !.pendingIds = {}]
    IN LoadFibonacciFromStorage(
           StartLoadTrendlines(GetOrCreatePane(fresh, 0), openThrows))

\* getRequest.onsuccess / onerror / request.onerror of the load, then the
\* "this.fullUpdate()" chained on its promise.
LoadTrendlinesCompletedBody(s) ==
    LET load == Val(s.pendingLoad)
        s1 == IF load.failed
              THEN s
              ELSE [s EXCEPT !.trendlinesBySymbol = LoadInto(@, load.content)]
    IN FullUpdate([s1 EXCEPT !.pendingLoad = {}])

\* An annotation as the pane shows it, with its kind.
Shown(type, data) == [type |-> type, data |-> data]

\* What the chart shows for a symbol.
VisibleSet(sym) ==
    {Shown("trendline", a) : a \in trendlinesBySymbol[sym]}
        \cup {Shown("fibonacci", a) : a \in fibonacciBySymbol[sym]}

\* The stored record as annotation sets per symbol.
ShownOf(type, payload) ==
    [sym \in Symbols |-> {Shown(type, a) : a \in PayloadOf(payload, sym)}]

\* History of a call: what was asked, under which symbol, with the store in
\* which condition.
CallRecord(kind, id, data) ==
    [kind |-> kind, id |-> id, data |-> data,
     symbol |-> currentSymbol, storeFailed |-> storeFails]

\* The state a call starts from: no exception in flight.
Begin == [St EXCEPT !.thrown = FALSE]

\* Anchors the host passes to the annotation calls.
ApiPoints == {[time |-> 100, value |-> 43], [time |-> 200, value |-> 49]}
ApiFirstPoint == [time |-> 100, value |-> 43]
ApiSecondPoint == [time |-> 300, value |-> 49]

\* The host creates a chart anew (the page is loaded again); the retracements
\* the constructor loads count as added under their symbols.
ConstructChartModel ==
    /\ \E openThrows \in BOOLEAN : Set(ConstructorBody(St, openThrows))
    /\ UNCHANGED drawVars /\ lastDraw' = {} /\ lastCall' = {CallRecord("constructor", 0, {})}
    /\ expected' = IF storeFails THEN EmptyBySymbol
                   ELSE ShownOf("fibonacci", storedFibonacci)
    /\ lastInput' = {}
    /\ UNCHANGED <<timeScale, firstValue, now, extrapolated, hit, levels>>

\* The store answers the load request of the constructor; the annotations it
\* delivers count as added under their symbols.
LoadTrendlinesCompleted ==
    /\ pendingLoad # {}
    /\ Set(LoadTrendlinesCompletedBody(St))
    /\ expected' = IF Val(pendingLoad).failed THEN expected
                   ELSE [sym \in Symbols |->
                            expected[sym] \cup
                                ShownOf("trendline", Val(pendingLoad).content)[sym]]
    /\ UNCHANGED drawVars /\ lastDraw' = {} /\ lastCall' = {} /\ lastInput' = {}
    /\ UNCHANGED <<timeScale, firstValue, now, extrapolated, hit, levels>>

\* The store starts or stops failing (quota, private mode, blocked database).
StoreChanges ==
    /\ Set([St EXCEPT !.storeFails = ~@])
    /\ UNCHANGED drawVars /\ lastDraw' = {} /\ lastCall' = {} /\ lastInput' = {}
    /\ UNCHANGED <<timeScale, firstValue, now, extrapolated, hit, levels, expected>>

\* The host application switches the instrument.
SetCurrentSymbol ==
    /\ ~destroyed
    /\ \E symbol \in Symbols :
           /\ Set(SetCurrentSymbolBody(Begin, symbol))
           /\ UNCHANGED drawVars /\ lastDraw' = {} /\ lastCall' = {CallRecord("setCurrentSymbol", 0, {symbol})}
    /\ lastInput' = {}
    /\ UNCHANGED <<timeScale, firstValue, now, extrapolated, hit, levels, expected>>

\* chart.addTrendline(data) with a fresh id.
ApiAddTrendline ==
    /\ ~destroyed
    /\ nextId < MaxAnnotations
    /\ LET data == [id |-> nextId, point1 |-> ApiFirstPoint, point2 |-> ApiSecondPoint]
       IN /\ Set(AddTrendline([Begin EXCEPT !.nextId = @ + 1], data))
          /\ UNCHANGED drawVars /\ lastDraw' = {} /\ lastCall' = {CallRecord("addTrendline", nextId, {data})}
          /\ expected' = [expected EXCEPT ![currentSymbol] =
                             @ \cup {Shown("trendline", data)}]
    /\ lastInput' = {}
    /\ UNCHANGED <<timeScale, firstValue, now, extrapolated, hit, levels>>

\* chart.addFibonacci(data) with a fresh id.
ApiAddFibonacci ==
    /\ ~destroyed
    /\ nextId < MaxAnnotations
    /\ LET data == [id |-> nextId, point1 |-> ApiFirstPoint, point2 |-> ApiSecondPoint]
       IN /\ Set(AddFibonacci([Begin EXCEPT !.nextId = @ + 1], data))
          /\ UNCHANGED drawVars /\ lastDraw' = {} /\ lastCall' = {CallRecord("addFibonacci", nextId, {data})}
          /\ expected' = [expected EXCEPT ![currentSymbol] =
                             @ \cup {Shown("fibonacci", data)}]
    /\ lastInput' = {}
    /\ UNCHANGED <<timeScale, firstValue, now, extrapolated, hit, levels>>

\* The annotations of one kind that carry the id.
WithId(set, type, id) == {e \in set : e.type = type /\ e.data.id = id}

\* chart.removeTrendline(id), for the ids the host can hold.
ApiRemoveTrendline ==
    /\ ~destroyed
    /\ \E id \in 0..(MaxAnnotations - 1) :
           /\ Set(RemoveTrendline(Begin, id))
           /\ UNCHANGED drawVars /\ lastDraw' = {} /\ lastCall' = {CallRecord("removeTrendline", id, {})}
           /\ expected' = [expected EXCEPT ![currentSymbol] =
                              @ \ WithId(@, "trendline", id)]
    /\ lastInput' = {}
    /\ UNCHANGED <<timeScale, firstValue, now, extrapolated, hit, levels>>

\* chart.removeFibonacci(id).
ApiRemoveFibonacci ==
    /\ ~destroyed
    /\ \E id \in 0..(MaxAnnotations - 1) :
           /\ Set(RemoveFibonacci(Begin, id))
           /\ UNCHANGED drawVars /\ lastDraw' = {} /\ lastCall' = {CallRecord("removeFibonacci", id, {})}
           /\ expected' = [expected EXCEPT ![currentSymbol] =
                              @ \ WithId(@, "fibonacci", id)]
    /\ lastInput' = {}
    /\ UNCHANGED <<timeScale, firstValue, now, extrapolated, hit, levels>>

\* The annotation `e` with its first anchor moved, when it is the one meant.
Moved(e, type, id, point1) ==
    IF e.type = type /\ e.data.id = id
    THEN Shown(type, [e.data EXCEPT !.point1 = point1])
    ELSE e

\* chart.updateTrendline(id, { point1 }).
ApiUpdateTrendline ==
    /\ ~destroyed
    /\ \E id \in 0..(MaxAnnotations - 1), point1 \in ApiPoints :
           /\ Set(UpdateTrendline(Begin, id, [point1 |-> point1]))
           /\ UNCHANGED drawVars /\ lastDraw' = {} /\ lastCall' = {CallRecord("updateTrendline", id, {point1})}
           /\ expected' = [expected EXCEPT ![currentSymbol] =
                              {Moved(e, "trendline", id, point1) : e \in @}]
    /\ lastInput' = {}
    /\ UNCHANGED <<timeScale, firstValue, now, extrapolated, hit, levels>>

\* chart.updateFibonacci(id, point1).
ApiUpdateFibonacci ==
    /\ ~destroyed
    /\ \E id \in 0..(MaxAnnotations - 1), point1 \in ApiPoints :
           /\ Set(UpdateFibonacci(Begin, id, {point1}, {}))
           /\ UNCHANGED drawVars /\ lastDraw' = {} /\ lastCall' = {CallRecord("updateFibonacci", id, {point1})}
           /\ expected' = [expected EXCEPT ![currentSymbol] =
                              {Moved(e, "fibonacci", id, point1) : e \in @}]
    /\ lastInput' = {}
    /\ UNCHANGED <<timeScale, firstValue, now, extrapolated, hit, levels>>

\* A chart whose store is empty and works, no instrument set yet.
InitStore ==
    /\ InitChart
    /\ development = FALSE
    /\ currentSymbol = ""
    /\ crosshairMode = CrosshairModeNormal
    /\ timeScale = TimeScaleOf(PointsUpTo(2), 10, 2)
    /\ firstValue = {50}

NextStore ==
    \/ ConstructChartModel
    \/ LoadTrendlinesCompleted
    \/ StoreChanges
    \/ SetCurrentSymbol
    \/ ApiAddTrendline
    \/ ApiAddFibonacci
    \/ ApiRemoveTrendline
    \/ ApiRemoveFibonacci
    \/ ApiUpdateTrendline
    \/ ApiUpdateFibonacci

SpecStore == InitStore /\ [][NextStore]_vars

\* Pane indices the host passes: those of the panes and one beyond them.
PaneIndices == 0..MaxPanes

\* chart.addPane().
ApiAddPane ==
    /\ ~destroyed
    /\ PaneCount(St) < MaxPanes /\ nextPaneId <= MaxCount
    /\ Set(AddPane(Begin))
    /\ UNCHANGED drawVars /\ lastDraw' = {} /\ lastCall' = {CallRecord("addPane", PaneCount(St), {})}
    /\ lastInput' = {}
    /\ UNCHANGED <<timeScale, firstValue, now, extrapolated, hit, levels, expected>>

\* A series is created on a pane of the chart, or on a new last pane.
ApiAddSeriesToPane ==
    /\ ~destroyed
    /\ Cardinality(Serieses(St)) < MaxSeries
    /\ \E paneIndex \in PaneIndices :
           /\ paneIndex < PaneCount(St) \/ PaneCount(St) < MaxPanes
           /\ LET series == CHOOSE n \in 0..MaxSeries :
                                /\ n \notin Serieses(St)
                                /\ \A m \in 0..MaxSeries : m \notin Serieses(St) => n <= m
              IN Set(AddSeriesToPane(Begin, series, paneIndex))
           /\ UNCHANGED drawVars /\ lastDraw' = {} /\ lastCall' = {CallRecord("addSeriesToPane", paneIndex, {})}
    /\ lastInput' = {}
    /\ UNCHANGED <<timeScale, firstValue, now, extrapolated, hit, levels, expected>>

\* chart.deletePaneById(paneIndex).
ApiDeletePaneById ==
    /\ ~destroyed
    /\ \E paneIndex \in PaneIndices :
           /\ Set(DeletePaneById(Begin, paneIndex))
           /\ UNCHANGED drawVars /\ lastDraw' = {} /\ lastCall' = {CallRecord("deletePaneById", paneIndex, {})}
    /\ lastInput' = {}
    /\ UNCHANGED <<timeScale, firstValue, now, extrapolated, hit, levels, expected>>

\* chart.removePane(index).
ApiRemovePane ==
    /\ ~destroyed
    /\ \E index \in PaneIndices :
           /\ Set(RemovePane(Begin, index))
           /\ UNCHANGED drawVars /\ lastDraw' = {} /\ lastCall' = {CallRecord("removePane", index, {})}
    /\ lastInput' = {}
    /\ UNCHANGED <<timeScale, firstValue, now, extrapolated, hit, levels, expected>>

\* chart.swapPanes(first, second).
ApiSwapPanes ==
    /\ ~destroyed
    /\ \E first \in PaneIndices, second \in PaneIndices :
           /\ Set(SwapPanes(Begin, first, second))
           /\ UNCHANGED drawVars /\ lastDraw' = {} /\ lastCall' = {CallRecord("swapPanes", first, {second})}
    /\ lastInput' = {}
    /\ UNCHANGED <<timeScale, firstValue, now, extrapolated, hit, levels, expected>>

\* chart.removeSeries(series), for a series of the chart.
ApiRemoveSeries ==
    /\ ~destroyed
    /\ \E series \in Serieses(St) :
           /\ Set(RemoveSeries(Begin, series))
           /\ UNCHANGED drawVars /\ lastDraw' = {} /\ lastCall' = {CallRecord("removeSeries", series, {})}
    /\ lastInput' = {}
    /\ UNCHANGED <<timeScale, firstValue, now, extrapolated, hit, levels, expected>>

\* series.moveToPane(paneIndex), for a series of the chart.
ApiMoveSeriesToPane ==
    /\ ~destroyed
    /\ \E series \in Serieses(St), paneIndex \in PaneIndices :
           /\ paneIndex < PaneCount(St) \/ PaneCount(St) < MaxPanes
           /\ Set(MoveSeriesToPane(Begin, series, paneIndex))
           /\ UNCHANGED drawVars /\ lastDraw' = {} /\ lastCall' = {CallRecord("moveSeriesToPane", series, {paneIndex})}
    /\ lastInput' = {}
    /\ UNCHANGED <<timeScale, firstValue, now, extrapolated, hit, levels, expected>>

\* The calls that concern annotations, on a chart with the main pane only.
AnnotationCall ==
    /\ panes = MainPaneOnly /\ nextPaneId = 1
    /\ \/ SetCurrentSymbol
       \/ ApiAddTrendline
       \/ ApiAddFibonacci
       \/ ApiRemoveTrendline
       \/ ApiRemoveFibonacci
       \/ ApiUpdateTrendline
       \/ ApiUpdateFibonacci

\* The calls that concern panes, on a chart without annotations.
PaneCall ==
    /\ nextId = 0 /\ currentSymbol = ""
    /\ \/ ApiAddPane
       \/ ApiAddSeriesToPane
       \/ ApiDeletePaneById
       \/ ApiRemovePane
       \/ ApiSwapPanes

\* The host drives the model's interface while the browser runs the frames.
NextMutators ==
    \/ AnnotationCall
    \/ PaneCall
    \/ FrameCallback

SpecMutators == InitStore /\ [][NextMutators]_vars

\* Drags on a chart whose host switches the instrument between frames.
NextSymbol ==
    \/ AddOnlyTrendline
    \/ AddOnlyFibonacci
    \/ SetCurrentSymbol
    \/ PaneMouseDown
    \/ PaneMouseMoveOrDrag
    \/ FrameCallback

SpecSymbol == InitDrag /\ [][NextSymbol]_vars

\* The drawing tools with the pointer moves recorded as inputs.
NextPreview ==
    \/ PressTrendlineButton
    \/ PressFibonacciButton
    \/ PaneClick
    \/ PaneMouseMoveOrDrag
    \/ FrameCallback

SpecPreview == InitTool /\ [][NextPreview]_vars

\* The host adds, removes and swaps panes while the browser runs the frames.
NextGui ==
    \/ ApiAddPane
    \/ ApiAddSeriesToPane
    \/ ApiDeletePaneById
    \/ ApiRemovePane
    \/ ApiSwapPanes
    \/ FrameCallback

SpecGui == InitStore /\ [][NextGui]_vars

\* Every call of the model's interface that adds, removes or moves a pane or
\* a series.
NextPaneOps ==
    \/ ApiAddPane
    \/ ApiAddSeriesToPane
    \/ ApiDeletePaneById
    \/ ApiRemovePane
    \/ ApiSwapPanes
    \/ ApiRemoveSeries
    \/ ApiMoveSeriesToPane

SpecPaneOps == InitStore /\ [][NextPaneOps]_vars

\* ------------------------------------------------ masks with pane records
\* An InvalidateMask as far as panes go: the global level and, for each pane
\* index, {} or the record {level, autoScale} that invalidatePane stored.
NoPanes == [i \in PaneIndices |-> {}]

PaneMask(level, invalidatedPanes) == [level |-> level, panes |-> invalidatedPanes]

\* The merge of two pane records with the later record winning.
MergePaneInvalidationLast(before, invalidation) ==
    IF invalidation = {} THEN before ELSE invalidation

\* The merge of two pane records: the higher level, autoScale OR-ed.
MergePaneInvalidation(before, invalidation) ==
    IF before = {} THEN invalidation
    ELSE IF invalidation = {} THEN before
    ELSE {[level |-> Max(Val(before).level, Val(invalidation).level),
           autoScale |-> Val(before).autoScale \/ Val(invalidation).autoScale]}

\* InvalidateMask.invalidatePane(index, invalidation).
InvalidatePane(mask, index, invalidation) ==
    [mask EXCEPT !.panes[index] = MergePaneInvalidation(@, {invalidation})]

\* InvalidateMask.invalidateForPane(index): the global level for a pane without
\* a record, else the higher of the global level and the level of the record.
InvalidateForPane(mask, index) ==
    IF mask.panes[index] = {}
    THEN [level |-> mask.level, autoScale |-> FALSE]
    ELSE [level |-> Max(mask.level, Val(mask.panes[index]).level),
          autoScale |-> Val(mask.panes[index]).autoScale]

\* InvalidateMask.merge(other), the levels and the pane records.
PaneMaskMerge(this, other) ==
    [level |-> MergeLevel(this.level, other.level),
     panes |-> [i \in PaneIndices |-> MergePaneInvalidation(this.panes[i], other.panes[i])]]

\* ChartModel._paneInvalidationMask(pane, level): "new InvalidateMask(level)"
\* with a record of the same level for the pane; autoScale is not set.
PaneInvalidationMask(index, level) ==
    InvalidatePane(PaneMask(level, NoPanes), index, [level |-> level, autoScale |-> FALSE])

\* The mask of _getOrCreatePane: full, the pane flagged for auto-scale.
GetOrCreatePaneMask(index) ==
    InvalidatePane(PaneMask(LevelFull, NoPanes), index,
                   [level |-> LevelNone, autoScale |-> TRUE])

\* The masks the model hands to _invalidate: fullUpdate, lightUpdate,
\* cursorUpdate, the mask of a pane and the mask of a created pane.
ModelMasks ==
    {PaneMask(level, NoPanes) : level \in {LevelCursor, LevelLight, LevelFull}}
        \cup {PaneInvalidationMask(i, LevelLight) : i \in PaneIndices}
        \cup {GetOrCreatePaneMask(i) : i \in PaneIndices}

\* The pending mask with its pane records, {} when there is none.
PendingPaneMask(f) ==
    IF f.invalidateMask = {} THEN {}
    ELSE {PaneMask(Val(f.invalidateMask), f.pendingPanes)}

\* _invalidateHandler(mask): merges into the pending mask or becomes it.
InvalidateHandlerPanes(f, mask) ==
    [InvalidateHandler(f, mask.level) EXCEPT
         !.pendingPanes = IF PendingPaneMask(f) = {}
                          THEN mask.panes
                          ELSE PaneMaskMerge(Val(PendingPaneMask(f)), mask).panes]

\* PaneWidget.paint(type): nothing for level None, the top canvas (crosshair)
\* for Cursor, both canvases above Cursor.
PaneWidgetPaint(type) ==
    IF type = LevelNone
    THEN [main |-> FALSE, top |-> FALSE]
    ELSE [main |-> type # LevelCursor, top |-> TRUE]

\* ChartWidget.paint(invalidateMask), the pane widgets.
ChartWidgetPaint(f, mask) ==
    [i \in 1..Len(f.paneWidgets) |-> PaneWidgetPaint(InvalidateForPane(mask, i - 1).level)]

\* A frame that paints whether or not a mask is pending: paint() without a
\* mask paints at Full.
PaintOfFrameAlways(f, painted) ==
    ChartWidgetPaint(f, IF painted = {} THEN PaneMask(LevelFull, NoPanes) ELSE Val(painted))

\* The frame callback: "if (this._invalidateMask !== null) { ... _drawImpl }",
\* no pane is painted when no mask is pending.
PaintOfFrame(f, painted) ==
    IF painted = {}
    THEN [i \in 1..Len(f.paneWidgets) |-> PaneWidgetPaint(LevelNone)]
    ELSE ChartWidgetPaint(f, Val(painted))

\* A model mutation that ends in ChartModel._invalidate(mask); a pane record
\* is for a pane of the model.
ModelInvalidate ==
    /\ ~destroyed
    /\ \E mask \in ModelMasks :
           /\ \A i \in PaneIndices : mask.panes[i] # {} => i < PaneCount(St)
           /\ Set([InvalidateHandlerPanes(St, mask) EXCEPT !.submitted = @ \cup {mask}])
    /\ lastInput' = {}
    /\ UNCHANGED <<timeScale, firstValue, now, extrapolated, hit>>
    /\ UNCHANGED hostVars /\ UNCHANGED drawVars /\ lastDraw' = {} /\ lastCall' = {}

\* The frame callback with the pane records: the mask is taken and cleared,
\* drawn, and the mask that _drawImpl ends with is painted; a Full invalidation
\* that arrives during the draw is merged into it, a lower one stays pending.
FrameCallbackPanes ==
    /\ rafQueue > 0
    /\ \E reentrant \in {{}, {LevelLight}, {LevelFull}} :
           LET consumed == PendingPaneMask(St)
               after == FrameCallbackBody([St EXCEPT !.pendingPanes = NoPanes],
                                          reentrant, FALSE)
               redone == consumed # {} /\ Val(consumed).level >= LevelLight
                             /\ reentrant = {LevelFull}
               painted == IF redone
                          THEN {PaneMaskMerge(PaneMask(LevelFull, NoPanes), Val(consumed))}
                          ELSE consumed
           IN Set([after EXCEPT
                       !.lastPaint = {[consumed |-> consumed,
                                       repainted |-> PaintOfFrame(after, painted)]},
                       !.submitted = IF after.invalidateMask = {} THEN {}
                                     ELSE {PaneMask(Val(reentrant), NoPanes)}])
    /\ lastInput' = {}
    /\ UNCHANGED <<timeScale, firstValue, now, extrapolated, hit>>
    /\ UNCHANGED hostVars /\ UNCHANGED drawVars /\ lastDraw' = {} /\ lastCall' = {}


\* The levels option a host creates a retracement with: none (the constructor
\* then keeps defaultFibonacciOptions.levels), or a list of its own.
LevelOptions ==
    {{}, {<<[num |-> 0, den |-> 1000], [num |-> 500, den |-> 1000],
            [num |-> 1000, den |-> 1000]>>},
     {<<[num |-> 0, den |-> 1000], [num |-> 1618, den |-> 1000]>>}}

\* FibonacciRetracement constructor: "{ ...defaultFibonacciOptions, ...options }".
FibonacciOptionLevels(options) == IF options = {} THEN DefaultLevels ELSE Val(options)

\* ChartModel.addFibonacci(data, options), the anchors at the two bars.
AddFibonacciWithOptions ==
    /\ ~destroyed
    /\ nextId < MaxAnnotations
    /\ \E value1 \in LevelPrices, value2 \in LevelPrices, options \in LevelOptions :
           Set(AddFibonacci([St EXCEPT !.nextId = @ + 1,
                                       !.fibonacciLevels[nextId] =
                                           FibonacciOptionLevels(options)],
                            [id |-> nextId,
                             point1 |-> [time |-> 100, value |-> value1],
                             point2 |-> [time |-> 200, value |-> value2]]))
    /\ lastInput' = {} /\ extrapolated' = {} /\ hit' = {}
    /\ UNCHANGED <<timeScale, firstValue, now>>
    /\ UNCHANGED hostVars /\ UNCHANGED drawVars /\ lastDraw' = {} /\ lastCall' = {}

\* A render of one retracement the pane holds (_drawFibonacciRetracements),
\* next to what calculateLevels() of the same retracement returns.
RenderFibonacci ==
    /\ ~destroyed
    /\ firstValue # {}
    /\ \E f \in PaneFibonacci(St) :
           levels' = {[data |-> f,
                       base |-> BaseLevelPrice(f),
                       options |-> fibonacciLevels[f.id],
                       model |-> CalculateLevels(f, fibonacciLevels[f.id]),
                       renderer |-> DrawnLevels(f)]}
    /\ lastInput' = {} /\ UNCHANGED drawVars /\ lastDraw' = {} /\ lastCall' = {}
    /\ UNCHANGED <<timeScale, firstValue, now, extrapolated, hit, expected>>
    /\ Set(St)

NextRender ==
    \/ AddFibonacciWithOptions
    \/ ApiUpdateFibonacci
    \/ RenderFibonacci

SpecRender == InitLevels /\ [][NextRender]_vars

\* ----------------------------------------- price scale options, applied
\* The visible range a host sets.
VisibleRanges == {[from |-> 40, to |-> 60]}

\* priceScale(id, paneIndex).applyOptions({ autoScale }).
ApiApplyPriceScaleOptions ==
    /\ ~destroyed
    /\ \E priceScaleId \in ScaleIds, paneIndex \in PaneIndices, on \in BOOLEAN :
           /\ Set(ApplyPriceScaleOptions(Begin, priceScaleId, [autoScale |-> {on}],
                                         paneIndex))
           /\ UNCHANGED drawVars /\ lastDraw' = {} /\ lastCall' = {CallRecord("applyPriceScaleOptions", paneIndex,
                                      {[scale |-> priceScaleId, autoScale |-> on]})}
    /\ lastInput' = {}
    /\ UNCHANGED <<timeScale, firstValue, now, extrapolated, hit, levels, expected>>

\* priceScale(id, paneIndex).setVisibleRange(range); the call record keeps the
\* autoScale option the scale had when the custom range was handed to it.
ApiSetVisibleRange ==
    /\ ~destroyed
    /\ \E priceScaleId \in ScaleIds, paneIndex \in PaneIndices, range \in VisibleRanges :
           LET s1 == SetAutoScale(Begin, priceScaleId, paneIndex, FALSE)
               found == FindPriceScale(s1, priceScaleId, paneIndex)
           IN /\ Set(SetVisibleRange(Begin, priceScaleId, paneIndex, range))
              /\ UNCHANGED drawVars /\ lastDraw' = {} /\ lastCall' = {CallRecord("setVisibleRange", paneIndex,
                                 {[scale |-> priceScaleId, range |-> range,
                                   autoScaleAtRange |-> {ps.autoScale : ps \in found}]})}
    /\ lastInput' = {}
    /\ UNCHANGED <<timeScale, firstValue, now, extrapolated, hit, levels, expected>>

\* A chart of either build, with the main pane.
InitScale ==
    /\ InitChart
    /\ development \in BOOLEAN
    /\ currentSymbol = ""
    /\ crosshairMode = CrosshairModeNormal
    /\ timeScale = TimeScaleOf(PointsUpTo(2), 10, 2)
    /\ firstValue = {50}

NextScale ==
    \/ ApiAddPane
    \/ ApiApplyPriceScaleOptions
    \/ ApiSetVisibleRange
    \/ ApiDeletePaneById
    \/ ApiRemovePane
    \/ FrameCallback

SpecScale == InitScale /\ [][NextScale]_vars

\* -------------------------------------- masks with their time-scale content
\* ITimeScaleAnimation, as far as the widget uses it: finished(time) and
\* getPosition(time); value = <<time at which it is finished, final position>>.
Finished(value, time) == time >= value[1]
GetPosition(value, time) == value[2] - (value[1] - time)

\* TimeScale.setBarSpacing / setRightOffset / restoreDefault / setLogicalRange /
\* fitContent, on the two fields the replay writes.
TimeScaleSetBarSpacing(ts, spacing) == [ts EXCEPT !.barSpacing = spacing]
TimeScaleSetRightOffset(ts, offset) == [ts EXCEPT !.rightOffset = offset]
TimeScaleRestoreDefault(ts) == TimeScaleSetRightOffset(TimeScaleSetBarSpacing(ts, 6), 0)
TimeScaleSetLogicalRange(ts, range) ==
    TimeScaleSetRightOffset(TimeScaleSetBarSpacing(ts, ts.width \div (range[2] - range[1] + 1)),
                   range[2] - BaseIndex(ts))
TimeScaleFitContent(ts) == TimeScaleSetLogicalRange(ts, <<0, BaseIndex(ts)>>)

\* One TimeScaleInvalidation; seq is history: the number of the handler call
\* that recorded it.
TimeScaleInvalidation(type, value, seq) == [type |-> type, value |-> value, seq |-> seq]

\* The operations the model's time-scale methods record: fitContent,
\* setTargetLogicalRange, resetTimeScale, setBarSpacing, setRightOffset,
\* setTimeScaleAnimation.
TimeScaleInvalidations(seq) ==
    {TimeScaleInvalidation("FitContent", <<>>, seq),
     TimeScaleInvalidation("ApplyRange", <<0, 3>>, seq),
     TimeScaleInvalidation("Reset", <<>>, seq),
     TimeScaleInvalidation("ApplyBarSpacing", <<5>>, seq),
     TimeScaleInvalidation("ApplyBarSpacing", <<7>>, seq),
     TimeScaleInvalidation("ApplyRightOffset", <<1>>, seq),
     TimeScaleInvalidation("ApplyRightOffset", <<3>>, seq),
     TimeScaleInvalidation("Animation", <<ClockStart + 2, 6>>, seq)}

\* An InvalidateMask: its global level, its time-scale invalidations and, as
\* history, the handler calls it stands for.
Mask(level, ops, ids) == [level |-> level, ops |-> ops, ids |-> ids]

\* The first MaxMasks handler calls are followed.
TagFor(n) == IF n < MaxMasks THEN {n} ELSE {}

\* this._invalidateMask, null as {}.
PendingMask(f) ==
    IF f.invalidateMask = {} THEN {}
    ELSE {Mask(Val(f.invalidateMask), f.pendingOps, f.pendingIds)}

SetPendingMask(f, mask) ==
    IF mask = {}
    THEN [f EXCEPT !.invalidateMask = {}, !.pendingOps = <<>>, !.pendingIds = {}]
    ELSE [f EXCEPT !.invalidateMask = {Val(mask).level},
                   !.pendingOps = Val(mask).ops, !.pendingIds = Val(mask).ids]

\* this.merge(other): the larger level, other's time-scale invalidations after
\* this mask's own.
MaskMerge(this, other) ==
    Mask(MergeLevel(this.level, other.level), this.ops \o other.ops,
         this.ids \cup other.ids)

\* _invalidateHandler(mask): merge into the pending mask or become it, then
\* request a frame unless one is planned.
InvalidateHandlerMask(f, mask) ==
    LET merged == IF PendingMask(f) # {} THEN MaskMerge(Val(PendingMask(f)), mask)
                  ELSE mask
        f1 == InvalidateHandler(f, mask.level)
    IN [f1 EXCEPT !.pendingOps = merged.ops, !.pendingIds = merged.ids]

\* _applyTimeScaleInvalidation(invalidation, time).
ApplyTimeScaleInvalidation(ts, invalidation, time) ==
    CASE invalidation.type = "FitContent" -> TimeScaleFitContent(ts)
      [] invalidation.type = "ApplyRange" -> TimeScaleSetLogicalRange(ts, invalidation.value)
      [] invalidation.type = "ApplyBarSpacing" -> TimeScaleSetBarSpacing(ts, invalidation.value[1])
      [] invalidation.type = "ApplyRightOffset" -> TimeScaleSetRightOffset(ts, invalidation.value[1])
      [] invalidation.type = "Reset" -> TimeScaleRestoreDefault(ts)
      [] invalidation.type = "Animation" ->
             IF ~Finished(invalidation.value, time)
             THEN TimeScaleSetRightOffset(ts, GetPosition(invalidation.value, time))
             ELSE ts

\* _applyTimeScaleInvalidations(mask, time): each one, in the order of the list.
RECURSIVE ApplyTimeScaleInvalidations(_, _, _)
ApplyTimeScaleInvalidations(ts, ops, time) ==
    IF ops = <<>> THEN ts
    ELSE ApplyTimeScaleInvalidations(
             ApplyTimeScaleInvalidation(ts, Head(ops), time), Tail(ops), time)

\* The pending mask is cleared when the postponed full invalidation is taken.
TakePendingSkipped(f) == f
TakePending(f) == SetPendingMask(f, {})

\* _drawImpl(mask, time) with the time scale it writes. `aliased` says that the
\* mask passed is the pending mask object itself (takeScreenshot); `reentrant`
\* is the mask ({} for none) that the update steps hand to the invalidate
\* handler while the draw runs, `early` whether that happens in the first
\* _updateGui(), before the replay, or in the steps after it. The result holds
\* the widget, the time scale and what the draw did.
DrawImplMask(f, ts, mask, aliased, time, reentrant, early) ==
    LET full == mask.level = LevelFull
        Arrives(g) == IF reentrant = {} THEN g
                      ELSE InvalidateHandlerMask(g, Val(reentrant))
        Passed(g) == IF aliased THEN Val(PendingMask(g)) ELSE mask
    IN IF mask.level \notin {LevelLight, LevelFull}
       THEN [f |-> f, ts |-> ts,
             draw |-> [guiSyncs |-> 0, autoScales |-> 0, replays |-> 0,
                       applied |-> <<>>, redone |-> FALSE, painted |-> mask]]
       ELSE LET synced == IF full THEN UpdateGui(f) ELSE f
                f1 == IF early /\ full THEN Arrives(synced) ELSE synced
                first == Passed(f1).ops
                ts1 == ApplyTimeScaleInvalidations(ts, first, time)
                f2 == UpdateTrendlines(IF early /\ full THEN f1 ELSE Arrives(f1))
                pending == PendingMask(f2)
            IN IF pending # {} /\ Val(pending).level = LevelFull
               THEN LET merged == MaskMerge(Val(pending), Passed(f2))
                    IN [f |-> UpdateGui(TakePending(f2)),
                        ts |-> ApplyTimeScaleInvalidations(ts1, merged.ops, time),
                        draw |-> [guiSyncs |-> (IF full THEN 1 ELSE 0) + 1,
                                  autoScales |-> 2, replays |-> 2,
                                  applied |-> first \o merged.ops,
                                  redone |-> TRUE, painted |-> merged]]
               ELSE [f |-> f2, ts |-> ts1,
                     draw |-> [guiSyncs |-> IF full THEN 1 ELSE 0,
                               autoScales |-> 1, replays |-> 1,
                               applied |-> first,
                               redone |-> FALSE, painted |-> Passed(f2)]]

\* The animations of a mask that are not finished at `time`, in list order.
Unfinished(ops, time) ==
    SelectSeq(ops, LAMBDA op : op.type = "Animation" /\ ~Finished(op.value, time))

\* ChartModel.setTimeScaleAnimation(animation): a light mask that holds it.
SetTimeScaleAnimation(f, value, n) ==
    InvalidateHandlerMask(f, Mask(LevelLight,
                                  <<TimeScaleInvalidation("Animation", value, n)>>,
                                  TagFor(n)))

\* "this._invalidateMask = null" of the callback, ahead of _drawImpl.
ClearBeforeDrawSkipped(f) == f
ClearBeforeDraw(f) == SetPendingMask(f, {})

\* The callback given to requestAnimationFrame, with the masks' content; n is
\* the number the next handler call gets.
FrameCallbackMask(f, ts, time, reentrant, early, n) ==
    LET f0 == [f EXCEPT !.drawPlanned = FALSE, !.drawRafId = 0,
                        !.rafQueue = @ - 1,
                        !.reqSinceFrame = 0, !.invSinceFrame = 0]
    IN IF PendingMask(f0) = {}
       THEN [f |-> f0, ts |-> ts, draw |-> {}, rearmed |-> FALSE]
       ELSE LET mask == Val(PendingMask(f0))
                d == DrawImplMask(ClearBeforeDraw(f0), ts, mask, FALSE, time,
                                  reentrant, early)
                unfinished == Unfinished(mask.ops, time)
                m == n + (IF reentrant = {} THEN 0 ELSE 1)
            IN [f |-> IF unfinished # <<>>
                      THEN SetTimeScaleAnimation(d.f, Head(unfinished).value, m)
                      ELSE d.f,
                ts |-> d.ts, draw |-> {d.draw}, rearmed |-> unfinished # <<>>]

\* takeScreenshot() up to the canvas copy: the pending mask is drawn at once,
\* then dropped.
TakeScreenshotMask(f, ts, time, reentrant, early) ==
    IF PendingMask(f) = {}
    THEN [f |-> f, ts |-> ts, draw |-> {}]
    ELSE LET d == DrawImplMask(f, ts, Val(PendingMask(f)), TRUE, time, reentrant, early)
         IN [f |-> SetPendingMask(d.f, {}), ts |-> d.ts, draw |-> {d.draw}]

\* ------------------------------------------------ masks followed to a paint
\* What the update steps of a draw can hand back to the invalidate handler.
ReentrantMasks(n) ==
    {{}} \cup
    {{Mask(level, ops, TagFor(n))} :
        level \in {LevelLight, LevelFull},
        ops \in {<<>>} \cup {<<op>> : op \in TimeScaleInvalidations(n)}}

\* The paints counted per mask followed, at most two.
CountPaints(draw) ==
    [id \in MaskIds |->
        IF draw # {} /\ id \in Val(draw).painted.ids
        THEN Min(paintedTimes[id] + 1, 2)
        ELSE paintedTimes[id]]

\* What is kept of a draw: who drew, the mask passed, what arrived meanwhile,
\* the time scale before and after, and what the draw did.
DrawRecord(by, reentrant, r, rearmed) ==
    [by |-> by, mask |-> Val(PendingMask(St)), reentrant |-> reentrant,
     time |-> now, before |-> timeScale, after |-> r.ts, did |-> Val(r.draw),
     rearmed |-> rearmed, destroyed |-> destroyed,
     planned |-> r.f.drawPlanned, left |-> PendingMask(r.f)]

\* The reentrant masks a draw of the pending mask can meet: none unless the
\* update steps run, and `early` only inside the first _updateGui().
MeetsReentrant(reentrant, early) ==
    /\ reentrant # {} => /\ invalidateMask \in {{LevelLight}, {LevelFull}}
                         /\ nextMaskId < MaxMasks
    /\ early => reentrant # {} /\ invalidateMask = {LevelFull}

\* fitContent / setTargetLogicalRange / resetTimeScale / setBarSpacing /
\* setRightOffset / setTimeScaleAnimation of the model.
ApiTimeScaleOperation ==
    /\ ~destroyed
    /\ nextMaskId < MaxMasks
    /\ Len(pendingOps) < MaxOps
    /\ \E op \in TimeScaleInvalidations(nextMaskId) :
           Set(InvalidateHandlerMask(St, Mask(LevelLight, <<op>>, {nextMaskId})))
    /\ nextMaskId' = nextMaskId + 1
    /\ UNCHANGED paintedTimes /\ lastDraw' = {}
    /\ lastInput' = {} /\ lastCall' = {}
    /\ UNCHANGED <<timeScale, firstValue, now, extrapolated, hit>>
    /\ UNCHANGED hostVars

\* fullUpdate / lightUpdate / cursorUpdate of the model.
ApiUpdate ==
    /\ ~destroyed
    /\ nextMaskId < MaxMasks
    /\ \E level \in {LevelCursor, LevelLight, LevelFull} :
           Set(InvalidateHandlerMask(St, Mask(level, <<>>, {nextMaskId})))
    /\ nextMaskId' = nextMaskId + 1
    /\ UNCHANGED paintedTimes /\ lastDraw' = {}
    /\ lastInput' = {} /\ lastCall' = {}
    /\ UNCHANGED <<timeScale, firstValue, now, extrapolated, hit>>
    /\ UNCHANGED hostVars

\* The browser runs one outstanding frame callback.
FrameCallbackDraw ==
    /\ rafQueue > 0
    /\ \E reentrant \in ReentrantMasks(nextMaskId), early \in BOOLEAN :
           /\ MeetsReentrant(reentrant, early)
           /\ LET r == FrameCallbackMask(St, timeScale, now, reentrant, early, nextMaskId)
              IN /\ Set(r.f)
                 /\ timeScale' = r.ts
                 /\ nextMaskId' = Min(MaxMasks, nextMaskId
                                          + (IF reentrant = {} THEN 0 ELSE 1)
                                          + (IF r.rearmed THEN 1 ELSE 0))
                 /\ paintedTimes' = CountPaints(r.draw)
                 /\ lastDraw' = IF r.draw = {} THEN {}
                                ELSE {DrawRecord("frame", reentrant, r, r.rearmed)}
    /\ lastInput' = {} /\ lastCall' = {}
    /\ UNCHANGED <<firstValue, now, extrapolated, hit>>
    /\ UNCHANGED hostVars

\* The host takes a screenshot while a mask is pending.
TakeScreenshotDraw ==
    /\ ~destroyed
    /\ invalidateMask # {}
    /\ \E reentrant \in ReentrantMasks(nextMaskId), early \in BOOLEAN :
           /\ MeetsReentrant(reentrant, early)
           /\ LET r == TakeScreenshotMask(St, timeScale, now, reentrant, early)
              IN /\ Set(r.f)
                 /\ timeScale' = r.ts
                 /\ nextMaskId' = nextMaskId + (IF reentrant = {} THEN 0 ELSE 1)
                 /\ paintedTimes' = CountPaints(r.draw)
                 /\ lastDraw' = {DrawRecord("screenshot", reentrant, r, FALSE)}
    /\ lastInput' = {} /\ lastCall' = {}
    /\ UNCHANGED <<firstValue, now, extrapolated, hit>>
    /\ UNCHANGED hostVars

\* A chart with two bars, nothing pending.
InitDraw ==
    /\ InitChart
    /\ development = FALSE
    /\ currentSymbol = ""
    /\ crosshairMode = CrosshairModeNormal
    /\ timeScale = TimeScaleOf(PointsUpTo(2), 10, 2)
    /\ firstValue = {50}

NextDraw ==
    \/ ApiTimeScaleOperation
    \/ ApiUpdate
    \/ FrameCallbackDraw
    \/ TakeScreenshotDraw
    \/ Tick

SpecDraw == InitDraw /\ [][NextDraw]_vars

\* The widget from construction to teardown, with the load the constructor
\* starts.
NextTeardown ==
    \/ ConstructChartModel
    \/ LoadTrendlinesCompleted
    \/ ApiUpdate
    \/ FrameCallbackDraw
    \/ Destroy

SpecTeardown == InitDraw /\ [][NextTeardown]_vars

\* ------------------------------------------------- panes and their series
\* The panes and pane data of a chart to which the host has added n - 1 empty
\* panes with addPane.
PanesAdded(n) ==
    [i \in 1..n |-> [id |-> i - 1, series |-> {}, priceScales |-> DefaultScaleOptions]]
PaneDataAdded(n) == [i \in 1..(n - 1) |-> [id |-> i, title |-> i]]

\* A chart with one to three panes, drawn.
InitPanes ==
    /\ InitWidget
    /\ \E n \in 1..(MaxPanes + 1) :
           panes = PanesAdded(n) /\ paneDataMap = PaneDataAdded(n) /\ nextPaneId = n
    /\ paneWidgets = [i \in DOMAIN panes |-> panes[i].id]
    /\ paneSeparators = IF Len(panes) = 0 THEN 0 ELSE Len(panes) - 1
    /\ development = FALSE
    /\ currentSymbol = ""
    /\ crosshairMode = CrosshairModeNormal
    /\ timeScale = TimeScaleOf(PointsUpTo(2), 10, 2)
    /\ firstValue = {50}

NextPanes ==
    \/ ApiAddPane
    \/ ApiAddSeriesToPane
    \/ ApiDeletePaneById
    \/ FrameCallback

SpecPanes == InitPanes /\ [][NextPanes]_vars

\* The model invalidates with masks that hold pane records, on a chart with
\* one to MaxPanes + 1 panes.
NextPaneMask ==
    \/ ModelInvalidate
    \/ FrameCallbackPanes

SpecPaneMask == InitPanes /\ [][NextPaneMask]_vars

\* ------------------------------------------------------------ properties
CurrentTrendlines == trendlinesBySymbol[currentSymbol]
CurrentFibonacci == fibonacciBySymbol[currentSymbol]

\* The annotation the latest commit created.
Newest(m) == {a \in m : a.id = nextId - 1}

\* The step just taken was a pane click, on a ready price scale, that found
\* `tool` active and holding (anchor) or not holding (~anchor) its first anchor.
PlacedBy(tool, anchor) ==
    /\ lastInput # {} /\ firstValue # {}
    /\ Val(lastInput).kind = "click"
    /\ Val(lastInput).tool = tool
    /\ Val(lastInput).anchor = anchor

\* The step just taken was a press of `button` that found `tool` active.
PressedWhile(button, tool) ==
    /\ lastInput # {}
    /\ Val(lastInput).kind = button
    /\ Val(lastInput).tool = tool

\* The (time, price) a click at pointer p resolves to.
Resolved(p) ==
    [time |-> ClickTime(timeScale, p.x, CoordinateToIndex(timeScale, p.x), now),
     value |-> MaxPrice - p.y]

AnchorOf(start) == [time |-> Val(start).time, value |-> Val(start).price]

\* C1: however many invalidations reach _invalidateHandler before a frame
\* callback has run, exactly one frame callback has been requested for them, and
\* at most one frame callback is outstanding in every reachable state.
C1_OneFramePerBurst ==
    /\ rafQueue <= 1
    /\ invSinceFrame >= 1 => reqSinceFrame = 1

\* Two or more invalidations are pending behind a single requested frame.
C1_Witness == invSinceFrame >= 2 /\ reqSinceFrame = 1 /\ rafQueue = 1

\* C2: for either tool, the first click on a ready pane stores anchor 1 and
\* creates no annotation; the next click adds exactly one new annotation to the
\* current symbol's set, with point1 the anchor resolved at the first click and
\* point2 the (time, price) resolved at the second click.
C2_TwoClickPlacement ==
    [][(lastInput' # {} /\ Val(lastInput').kind = "click" /\ firstValue # {}) =>
          LET p == Val(lastInput')
          IN /\ (p.tool = "trendline" /\ ~p.anchor) =>
                   /\ trendlineStartPoint' # {}
                   /\ AnchorOf(trendlineStartPoint') = Resolved(p)
                   /\ UNCHANGED <<trendlinesBySymbol, fibonacciBySymbol>>
             /\ (p.tool = "fibonacci" /\ ~p.anchor) =>
                   /\ fibonacciStartPoint' # {}
                   /\ AnchorOf(fibonacciStartPoint') = Resolved(p)
                   /\ UNCHANGED <<trendlinesBySymbol, fibonacciBySymbol>>
             /\ (p.tool = "trendline" /\ p.anchor) =>
                   /\ \E a \in trendlinesBySymbol'[currentSymbol] \ CurrentTrendlines :
                          /\ trendlinesBySymbol' =
                                 [trendlinesBySymbol EXCEPT ![currentSymbol] = @ \cup {a}]
                          /\ a.point1 = AnchorOf(trendlineStartPoint)
                          /\ a.point2 = Resolved(p)
                   /\ UNCHANGED fibonacciBySymbol
             /\ (p.tool = "fibonacci" /\ p.anchor) =>
                   /\ \E a \in fibonacciBySymbol'[currentSymbol] \ CurrentFibonacci :
                          /\ fibonacciBySymbol' =
                                 [fibonacciBySymbol EXCEPT ![currentSymbol] = @ \cup {a}]
                          /\ a.point1 = AnchorOf(fibonacciStartPoint)
                          /\ a.point2 = Resolved(p)
                   /\ UNCHANGED trendlinesBySymbol
      ]_vars

\* A second click has just committed an annotation whose two anchors differ.
C2_Witness ==
    /\ PlacedBy("fibonacci", TRUE) \/ PlacedBy("trendline", TRUE)
    /\ \E a \in Newest(CurrentFibonacci) \cup Newest(CurrentTrendlines) :
           /\ a.point1 # a.point2
           /\ a.point2 = Resolved(Val(lastInput))

\* C3: when the second click commits an annotation, for either tool, the tool
\* is inactive in widget, model and toolbar, start point and preview are
\* cleared, the center-dot flag is off, and the crosshair mode equals the value
\* it had just before the tool was activated.
C3_CommitCleansUp ==
    (PlacedBy("trendline", TRUE) \/ PlacedBy("fibonacci", TRUE)) =>
        /\ ~isDrawingTrendline /\ ~isDrawingFibonacci /\ ~mIsDrawingTrendline
        /\ ~tbTrendlineActive /\ ~tbFibonacciActive
        /\ trendlineStartPoint = {} /\ trendlinePreviewEnd = {}
        /\ mTrendlineStartPoint = {} /\ mTrendlinePreviewEnd = {}
        /\ fibonacciStartPoint = {} /\ fibonacciPreviewEnd = {}
        /\ ~showCenterDot
        /\ modeBeforeActivation # {} /\ crosshairMode = Val(modeBeforeActivation)

\* C4: toggling a tool off from either awaiting state resets it to inactive:
\* anchor and preview are discarded, no annotation is created, and the crosshair
\* mode is restored to its value before the tool was toggled on (when the press
\* was on the other tool's button, that restored value is what the other tool
\* then saves).
C4_ToggleOffResets ==
    [][(lastInput' # {} /\ Val(lastInput').kind # "click"
                        /\ Val(lastInput').tool # "idle") =>
          LET p == Val(lastInput')
              ownButton == IF p.tool = "trendline"
                           THEN "trendlineButton" ELSE "fibonacciButton"
          IN /\ p.tool = "trendline" =>
                   /\ ~isDrawingTrendline' /\ ~mIsDrawingTrendline' /\ ~tbTrendlineActive'
                   /\ trendlineStartPoint' = {} /\ trendlinePreviewEnd' = {}
                   /\ mTrendlineStartPoint' = {} /\ mTrendlinePreviewEnd' = {}
             /\ p.tool = "fibonacci" =>
                   /\ ~isDrawingFibonacci' /\ ~tbFibonacciActive'
                   /\ fibonacciStartPoint' = {} /\ fibonacciPreviewEnd' = {}
             /\ UNCHANGED <<trendlinesBySymbol, fibonacciBySymbol>>
             /\ modeBeforeActivation # {}
             /\ IF p.kind = ownButton
                THEN crosshairMode' = Val(modeBeforeActivation)
                ELSE originalCrosshairMode' = modeBeforeActivation
      ]_vars

\* The trendline tool was toggled off while it held its first anchor, and a
\* mode other than Normal came back.
C4_Witness ==
    /\ PressedWhile("trendlineButton", "trendline")
    /\ Val(lastInput).anchor
    /\ trendlineStartPoint = {} /\ ~isDrawingTrendline
    /\ crosshairMode = Val(modeBeforeActivation)
    /\ crosshairMode # CrosshairModeNormal

\* C5: at most one of the two tools is active in every reachable state; a press
\* of one tool's button while the other is active leaves the other inactive
\* with its anchor discarded and its saved crosshair mode handed back before
\* the pressed tool saved the mode for itself.
C5_ToolsMutuallyExclusive ==
    /\ ~(isDrawingTrendline /\ isDrawingFibonacci)
    /\ ~(tbTrendlineActive /\ tbFibonacciActive)
    /\ PressedWhile("trendlineButton", "fibonacci") =>
           /\ isDrawingTrendline /\ tbTrendlineActive
           /\ ~isDrawingFibonacci /\ ~tbFibonacciActive
           /\ fibonacciStartPoint = {} /\ fibonacciPreviewEnd = {}
           /\ originalCrosshairMode # {} /\ crosshairMode = CrosshairModeNormal
    /\ PressedWhile("fibonacciButton", "trendline") =>
           /\ isDrawingFibonacci /\ tbFibonacciActive
           /\ ~isDrawingTrendline /\ ~tbTrendlineActive /\ ~mIsDrawingTrendline
           /\ trendlineStartPoint = {} /\ trendlinePreviewEnd = {}
           /\ originalCrosshairMode # {} /\ crosshairMode = CrosshairModeNormal

\* The trendline button was pressed while the Fibonacci tool held an anchor.
C5_Witness ==
    /\ PressedWhile("trendlineButton", "fibonacci")
    /\ Val(lastInput).anchor
    /\ isDrawingTrendline

\* C6: toggling either tool on sets the crosshair's center-dot flag and sets
\* the crosshair mode to Normal, after saving the previous mode.
C6_ToggleOnDotAndNormal ==
    (\/ lastInput # {} /\ Val(lastInput).kind = "trendlineButton"
                       /\ Val(lastInput).tool # "trendline"
     \/ lastInput # {} /\ Val(lastInput).kind = "fibonacciButton"
                       /\ Val(lastInput).tool # "fibonacci") =>
        /\ showCenterDot
        /\ crosshairMode = CrosshairModeNormal
        /\ originalCrosshairMode # {}
        /\ originalCrosshairMode = modeBeforeActivation

\* C7: a placement click of either tool at a pixel strictly beyond the last
\* bar stores the time the extrapolation function gives, never the time of the
\* data point nearest to the click.
C7_BeyondUsesExtrapolation ==
    \A tool \in {"trendline", "fibonacci"}, anchor \in BOOLEAN :
        (/\ PlacedBy(tool, anchor)
         /\ IndexToCoordinate(timeScale, BaseIndex(timeScale)) # {}
         /\ Val(lastInput).x > Val(IndexToCoordinate(timeScale, BaseIndex(timeScale)))) =>
            LET x == Val(lastInput).x
                stored == IF ~anchor
                          THEN IF tool = "trendline"
                               THEN {Val(trendlineStartPoint).time}
                               ELSE {Val(fibonacciStartPoint).time}
                          ELSE {a.point2.time :
                                   a \in IF tool = "trendline"
                                         THEN Newest(CurrentTrendlines)
                                         ELSE Newest(CurrentFibonacci)}
                nearest == IndexToTime(timeScale, Val(CoordinateToIndex(timeScale, x)))
            IN /\ stored = {ExtrapolateTimeFromCoordinate(timeScale, x, now)}
               /\ stored \cap nearest = {}

\* A click beyond the last of two or more bars has just placed an anchor, and
\* a data point lies nearest to that click.
C7_Witness ==
    /\ PlacedBy("fibonacci", FALSE) \/ PlacedBy("trendline", TRUE)
    /\ Len(timeScale.points) >= 2
    /\ Val(lastInput).x > Val(IndexToCoordinate(timeScale, BaseIndex(timeScale)))
    /\ IndexToTime(timeScale, Val(CoordinateToIndex(timeScale, Val(lastInput).x))) # {}

\* The last bar's coordinate is known and pixel x lies strictly beyond it.
BeyondLastBar(x) ==
    /\ IndexToCoordinate(timeScale, BaseIndex(timeScale)) # {}
    /\ x > Val(IndexToCoordinate(timeScale, BaseIndex(timeScale)))

\* C8: for a pixel beyond the last bar, the click path, the drag path and the
\* two pane preview paths all return the same time, on every time scale
\* (also one with fewer than two points).
C8_PathsAgree ==
    (extrapolated # {} /\ BeyondLastBar(Val(extrapolated).x)) =>
        LET e == Val(extrapolated)
        IN /\ e.click = e.widget
           /\ e.drag = e.widget
           /\ e.trendlinePreview = e.widget
           /\ e.fibonacciPreview = e.widget

\* C9: with two or more points, a click beyond the last bar resolves to
\* baseTime + (x - baseCoord) * (baseTime - prevTime) / (baseCoord - prevCoord);
\* with points 100 and 200 at 10px and 20px, x = 30 resolves to 300.
C9_ExtrapolationFormula ==
    (/\ extrapolated # {} /\ BeyondLastBar(Val(extrapolated).x)
     /\ Len(timeScale.points) >= 2) =>
        LET x == Val(extrapolated).x
            n == Len(timeScale.points)
            baseTime == timeScale.points[n]
            prevTime == timeScale.points[n - 1]
            baseCoord == Val(IndexToCoordinate(timeScale, n - 1))
            prevCoord == Val(IndexToCoordinate(timeScale, n - 2))
        IN /\ baseCoord # prevCoord
           /\ (baseCoord - prevCoord) * (Val(extrapolated).click - baseTime)
                  = (x - baseCoord) * (baseTime - prevTime)
           /\ (timeScale.points = <<100, 200>> /\ baseCoord = 20 /\ prevCoord = 10
                  /\ x = 30) => Val(extrapolated).click = 300

\* Scenario A: points 100 and 200 at 10px and 20px, click at 30px.
C9_Witness ==
    /\ extrapolated # {} /\ Val(extrapolated).x = 30
    /\ timeScale.points = <<100, 200>>
    /\ IndexToCoordinate(timeScale, 0) = {10} /\ IndexToCoordinate(timeScale, 1) = {20}
    /\ Val(extrapolated).click = 300

Reverse(seq) == [i \in 1..Len(seq) |-> seq[Len(seq) + 1 - i]]

\* Two hit results are both null or lie at the same distance.
SameDistance(a, b) ==
    \/ a = {} /\ b = {}
    \/ /\ a # {} /\ b # {}
       /\ ~Closer(Val(a).distance, Val(b).distance)
       /\ ~Closer(Val(b).distance, Val(a).distance)

\* C10: the trendline hit test returns a candidate whose hit distance is the
\* minimum over the hits the candidates contribute (anchor hit within the anchor
\* tolerance, otherwise line hit within the line tolerance), and iterating the
\* candidates in the opposite order returns a hit at the same distance.
C10_ClosestHitAnyOrder ==
    hit # {} =>
        LET h == Val(hit)
            order == MapOrder(CurrentTrendlines)
            own(t) == TrendlineHitStep({}, t, timeScale, firstValue, h.x, h.y)
        IN /\ \A t \in CurrentTrendlines :
                  own(t) # {} =>
                      /\ h.trendline # {}
                      /\ ~Closer(Val(own(t)).distance, Val(h.trendline).distance)
           /\ SameDistance(
                  HitTestTrendlines(Reverse(order), timeScale, firstValue, h.x, h.y),
                  h.trendline)

\* Squared pixel distance from the pointer of the latest hit test to an anchor
\* of trendline t, {} when the anchor has no projected pixel.
AnchorDistance(t, point) ==
    LET c == ConvertTimeAndPriceToCoordinates(timeScale, Val(firstValue),
                                              point.time, point.value)
    IN IF c = {} THEN {} ELSE {PointDistance(Val(hit).x, Val(hit).y, Val(c).x, Val(c).y)}

\* C11: with a single trendline whose anchors both have a projected pixel, a
\* pointer within 8 px of an anchor is reported as a hit of an anchor that lies
\* within 8 px (the nearer one, point1 on a tie) at that anchor's distance, never
\* as 'line', however near the segment passes; at the exact pixel of anchor 1
\* the hit is point1 with distance 0.
C11_AnchorBeforeLine ==
    (hit # {} /\ firstValue # {} /\ Cardinality(CurrentTrendlines) = 1) =>
        \A t \in CurrentTrendlines :
            LET dist1 == AnchorDistance(t, t.point1)
                dist2 == AnchorDistance(t, t.point2)
                h == Val(hit).trendline
            IN (/\ dist1 # {} /\ dist2 # {}
                /\ \/ WithinTolerance(Val(dist1), SELECTION_HIT_TOLERANCE)
                   \/ WithinTolerance(Val(dist2), SELECTION_HIT_TOLERANCE)) =>
                   /\ h # {}
                   /\ Val(h).id = t.id
                   /\ Val(h).hitType \in {"point1", "point2"}
                   /\ Val(h).hitType = "point1" =>
                          /\ WithinTolerance(Val(dist1), SELECTION_HIT_TOLERANCE)
                          /\ Val(h).distance = Val(dist1)
                          /\ ~Closer(Val(dist2), Val(dist1))
                   /\ Val(h).hitType = "point2" =>
                          /\ WithinTolerance(Val(dist2), SELECTION_HIT_TOLERANCE)
                          /\ Val(h).distance = Val(dist2)
                          /\ Closer(Val(dist2), Val(dist1))
                   /\ Val(dist1).num = 0 =>
                          Val(h).hitType = "point1" /\ Val(h).distance.num = 0

\* A single trendline was hit at an anchor although the segment passes nearer
\* to the pointer than the anchor and within the line tolerance.
C11_Witness ==
    /\ hit # {} /\ firstValue # {} /\ Cardinality(CurrentTrendlines) = 1
    /\ Val(hit).trendline # {}
    /\ Val(Val(hit).trendline).hitType = "point1"
    /\ \E t \in CurrentTrendlines :
           LET c1 == Val(ConvertTimeAndPriceToCoordinates(
                             timeScale, Val(firstValue), t.point1.time, t.point1.value))
               c2 == Val(ConvertTimeAndPriceToCoordinates(
                             timeScale, Val(firstValue), t.point2.time, t.point2.value))
               lineDist == DistanceToLine(Val(hit).x, Val(hit).y, c1.x, c1.y, c2.x, c2.y)
           IN /\ WithinTolerance(lineDist, LINE_HIT_TOLERANCE)
              /\ Closer(lineDist, Val(Val(hit).trendline).distance)

\* Scenario B: the pointer is on the exact projected pixel of anchor 1.
C11_WitnessExact ==
    /\ hit # {} /\ firstValue # {} /\ Cardinality(CurrentTrendlines) = 1
    /\ Val(hit).trendline # {}
    /\ Val(Val(hit).trendline).hitType = "point1"
    /\ Val(Val(hit).trendline).distance.num = 0
    /\ \E t \in CurrentTrendlines : t.point1 # t.point2

\* The step taken is a pointer move (mouseMoveEvent or pressedMouseMoveEvent).
IsMove(input) == input # {} /\ Val(input).kind \in {"mouseMove", "pressedMouseMove"}

\* The trendline the pane has selected, before and after the step.
SelectedTrendline == Val(MapGet(CurrentTrendlines, Val(trendlineSelection.selectedId)))
SelectedTrendlineAfter ==
    Val(MapGet(trendlinesBySymbol'[currentSymbol], Val(trendlineSelection.selectedId)))

\* C12: a pointer-down that hits the segment records the two anchors as they
\* are; every later drag step leaves the trendline with both anchors displaced
\* from those recorded positions by the same time delta and the same price
\* delta, the deltas of the pointer since the pointer-down, so point2 - point1
\* keeps its value of the start of the drag and, when the pointer has left its
\* start pixel, both anchors have moved.
C12_LineDragTranslates ==
    [][/\ (/\ lastInput' # {} /\ Val(lastInput').kind = "mouseDown"
           /\ trendlineSelection'.dragState # {}
           /\ Val(trendlineSelection'.dragState).dragType = "line") =>
              /\ UNCHANGED trendlinesBySymbol
              /\ \E t \in CurrentTrendlines :
                     /\ trendlineSelection'.selectedId = {t.id}
                     /\ Val(trendlineSelection'.dragState).originalLine
                            = {[point1 |-> t.point1, point2 |-> t.point2]}
       /\ (/\ IsMove(lastInput')
           /\ trendlineSelection.dragState # {}
           /\ Val(trendlineSelection.dragState).dragType = "line") =>
              LET d == Val(trendlineSelection.dragState)
                  orig == Val(d.originalLine)
                  after == SelectedTrendlineAfter
                  p == Val(lastInput')
                  dT == after.point1.time - orig.point1.time
                  dP == after.point1.value - orig.point1.value
              IN /\ after.point2.time - after.point1.time
                        = orig.point2.time - orig.point1.time
                 /\ after.point2.value - after.point1.value
                        = orig.point2.value - orig.point1.value
                 /\ after.point2.time - orig.point2.time = dT
                 /\ after.point2.value - orig.point2.value = dP
                 /\ dP = d.startMousePos.y - p.y
                 /\ (Val(IndexToCoordinate(timeScale, 1)) - Val(IndexToCoordinate(timeScale, 0)))
                        * dT = (p.x - d.startMousePos.x)
                                   * (timeScale.points[2] - timeScale.points[1])
                 /\ (p.x # d.startMousePos.x \/ p.y # d.startMousePos.y) =>
                        after.point1 # orig.point1 /\ after.point2 # orig.point2
                 /\ UNCHANGED <<trendlineSelection, fibonacciBySymbol>>
      ]_vars

\* A trendline grabbed by its segment has been dragged away from where it was
\* grabbed: both anchors are off their recorded positions.
C12_Witness ==
    /\ IsMove(lastInput)
    /\ trendlineSelection.dragState # {}
    /\ Val(trendlineSelection.dragState).dragType = "line"
    /\ LET orig == Val(Val(trendlineSelection.dragState).originalLine)
       IN /\ SelectedTrendline.point1 # orig.point1
          /\ SelectedTrendline.point2 # orig.point2
          /\ orig.point1 # orig.point2

\* The (time, price) under a pointer during a drag: the time of the bar nearest
\* to the pixel (the linear extrapolation where no bar is nearest), and the
\* price of the pixel row.
UnderPointer(p) ==
    LET index == CoordinateToIndex(timeScale, p.x)
    IN [time |-> IF index # {} /\ IndexToTime(timeScale, Val(index)) # {}
                 THEN Val(IndexToTime(timeScale, Val(index)))
                 ELSE Project(p.x, timeScale.points[2], Val(IndexToCoordinate(timeScale, 1)),
                              timeScale.points[1], Val(IndexToCoordinate(timeScale, 0))),
        value |-> MaxPrice - p.y]

\* C13: a drag step of an endpoint drag sets the grabbed anchor (point1 for a
\* point1 hit, point2 for a point2 hit) to the (time, price) under the pointer
\* and leaves the other anchor as it was.
C13_EndpointDragMovesOneAnchor ==
    [][(/\ IsMove(lastInput')
        /\ trendlineSelection.dragState # {}
        /\ Val(trendlineSelection.dragState).dragType = "point") =>
           LET d == Val(trendlineSelection.dragState)
               before == SelectedTrendline
               after == SelectedTrendlineAfter
               p == Val(lastInput')
           IN /\ d.dragPointIndex = 0 =>
                     after.point1 = UnderPointer(p) /\ after.point2 = before.point2
              /\ d.dragPointIndex = 1 =>
                     after.point2 = UnderPointer(p) /\ after.point1 = before.point1
              /\ d.dragPointIndex \in {0, 1}
      ]_vars

\* Endpoint 1 of a trendline has been dragged to another (time, price).
C13_Witness ==
    /\ IsMove(lastInput)
    /\ trendlineSelection.dragState # {}
    /\ Val(trendlineSelection.dragState).dragType = "point"
    /\ Val(trendlineSelection.dragState).dragPointIndex = 0
    /\ SelectedTrendline.point1 = UnderPointer(Val(lastInput))
    /\ SelectedTrendline.point1 # Val(trendlineSelection.dragState).originalPoint
    /\ SelectedTrendline.point1 # SelectedTrendline.point2

\* Pixel of an anchor of a retracement, as the Fibonacci hit test projects it.
AnchorPixel(point) ==
    Val(TimeAndPriceToCoordinates(timeScale, Val(firstValue), point.time, point.value))

\* Pixel of the corner handle `corner` of the box spanned by two anchors.
CornerPixel(points, corner) ==
    LET c1 == AnchorPixel(points.point1)
        c2 == AnchorPixel(points.point2)
    IN IF corner = "topRight"
       THEN [x |-> Max(c1.x, c2.x), y |-> Min(c1.y, c2.y)]
       ELSE [x |-> Min(c1.x, c2.x), y |-> Max(c1.y, c2.y)]

\* C14: a Fibonacci drag starts only from a pointer-down within the anchor
\* tolerance of the top-right or bottom-left corner handle of the retracement
\* (a pointer-down anywhere else stores no drag state), and a drag step changes
\* only the anchor that was located at the grabbed corner when the drag
\* started: the other anchor keeps its value.
C14_FibonacciCornerDrag ==
    [][/\ (lastInput' # {} /\ Val(lastInput').kind = "mouseDown") =>
              LET p == Val(lastInput')
              IN IF fibonacciSelection'.dragState # {}
                 THEN \E f \in CurrentFibonacci, corner \in {"topRight", "bottomLeft"} :
                          /\ fibonacciSelection'.selectedId = {f.id}
                          /\ Val(fibonacciSelection'.dragState).dragCorner = corner
                          /\ WithinTolerance(
                                 PointDistance(p.x, p.y, CornerPixel(f, corner).x,
                                               CornerPixel(f, corner).y),
                                 SELECTION_HIT_TOLERANCE)
                 ELSE UNCHANGED fibonacciBySymbol
       /\ (IsMove(lastInput') /\ fibonacciSelection.dragState # {}
                              /\ trendlineSelection.dragState = {}) =>
              LET d == Val(fibonacciSelection.dragState)
                  id == Val(fibonacciSelection.selectedId)
                  before == Val(MapGet(CurrentFibonacci, id))
                  after == Val(MapGet(fibonacciBySymbol'[currentSymbol], id))
                  grabbed == CornerPixel(d.originalPoints, d.dragCorner)
              IN /\ AnchorPixel(d.originalPoints.point1) = grabbed =>
                        after.point2 = before.point2
                 /\ AnchorPixel(d.originalPoints.point2) = grabbed =>
                        after.point1 = before.point1
      ]_vars

\* The price `price` (a fraction) equals base + sign * priceRange * level.
IsLevelPrice(price, base, sign, priceRange, level) ==
    price.num * level.den = (base * level.den + sign * priceRange * level.num) * price.den

\* C15: for a retracement in a downtrend (point2 price below point1 price) the
\* base level price is the lower of the two anchor prices and level L has the
\* price base + |point2 - point1| * L, in calculateLevels and in the renderer.
C15_DowntrendLevels ==
    \A l \in levels :
        l.data.point2.value < l.data.point1.value =>
            LET lower == Min(l.data.point1.value, l.data.point2.value)
                priceRange == Abs(l.data.point2.value - l.data.point1.value)
            IN /\ l.base = lower
               /\ \A i \in DOMAIN l.model :
                      IsLevelPrice(l.model[i].price, lower, 1, priceRange,
                                   l.model[i].level)
               /\ \A i \in DOMAIN l.renderer :
                      IsLevelPrice(l.renderer[i].price, lower, 1, priceRange,
                                   l.renderer[i].level)

\* C16: for a retracement in an uptrend (point2 price above point1 price) level
\* L has the price max(point1, point2) - |point2 - point1| * L; with point1 at
\* 100 and point2 at 200, level 0.5 is at 150 and level 1.0 is at 100.
C16_UptrendLevels ==
    \A l \in levels :
        l.data.point2.value > l.data.point1.value =>
            LET higher == Max(l.data.point1.value, l.data.point2.value)
                priceRange == Abs(l.data.point2.value - l.data.point1.value)
            IN /\ \A i \in DOMAIN l.model :
                      IsLevelPrice(l.model[i].price, higher, -1, priceRange,
                                   l.model[i].level)
               /\ l.data.point1.value = 100 /\ l.data.point2.value = 200 =>
                      \A i \in DOMAIN l.model :
                          LET level == l.model[i].level
                              price == l.model[i].price
                          IN /\ 2 * level.num = level.den => price.num = 150 * price.den
                             /\ level.num = level.den => price.num = 100 * price.den

C16_Witness ==
    \E l \in levels :
        /\ l.data.point1.value = 100 /\ l.data.point2.value = 200
        /\ \E i \in DOMAIN l.model : 2 * l.model[i].level.num = l.model[i].level.den
        /\ \E i \in DOMAIN l.model : l.model[i].level.num = l.model[i].level.den

\* C17: for any sequence of setCurrentSymbol, add, update and remove calls,
\* what the chart shows for a symbol is exactly what was added while that
\* symbol was current and not removed since: calls made under one symbol leave
\* the other symbol's set alone, and switching away and back loses nothing.
C17_SymbolSetsKept ==
    \A sym \in Symbols : VisibleSet(sym) = expected[sym]

\* C18: every step that changes a symbol's annotations (creation, removal,
\* update, an anchor moved by a drag) hands the store a payload that holds that
\* symbol's annotations as they are after the step, also when the symbol is the
\* empty one (no instrument set).
C18_MutationsSaved ==
    [][\A sym \in Symbols :
           /\ trendlinesBySymbol'[sym] # trendlinesBySymbol[sym] =>
                  PayloadOf(savedTrendlines', sym) = trendlinesBySymbol'[sym]
           /\ fibonacciBySymbol'[sym] # fibonacciBySymbol[sym] =>
                  PayloadOf(savedFibonacci', sym) = fibonacciBySymbol'[sym]]_vars

\* The annotation with the id in a map, as an optional value.
Found(map, id) == {a \in map : a.id = id}

\* C19: a failing store never reaches the caller. A call of add, remove or
\* update whose save fails returns without an exception and the annotations in
\* memory carry the change; a construction whose loads fail completes, with the
\* main pane and with empty annotation sets.
C19_StoreFailureContained ==
    \A call \in lastCall :
        call.storeFailed =>
            LET trendlinesNow == trendlinesBySymbol[call.symbol]
                fibonacciNow == fibonacciBySymbol[call.symbol]
            IN /\ ~thrown
               /\ call.kind = "addTrendline" => call.data \subseteq trendlinesNow
               /\ call.kind = "addFibonacci" => call.data \subseteq fibonacciNow
               /\ call.kind = "removeTrendline" => Found(trendlinesNow, call.id) = {}
               /\ call.kind = "removeFibonacci" => Found(fibonacciNow, call.id) = {}
               /\ call.kind = "updateTrendline" =>
                      \A a \in Found(trendlinesNow, call.id) : {a.point1} = call.data
               /\ call.kind = "updateFibonacci" =>
                      \A a \in Found(fibonacciNow, call.id) : {a.point1} = call.data
               /\ call.kind = "constructor" =>
                      /\ trendlinesBySymbol = EmptyBySymbol
                      /\ fibonacciBySymbol = EmptyBySymbol
                      /\ panes = MainPaneOnly

\* A retracement was added while the store failed: it is in memory, the store
\* does not hold the payload.
C19_Witness ==
    \E call \in lastCall :
        /\ call.storeFailed /\ call.kind = "addFibonacci"
        /\ call.data \subseteq fibonacciBySymbol[call.symbol]
        /\ call.symbol # ""
        /\ savedFibonacci # storedFibonacci

\* A chart was constructed over a store that holds annotations and fails.
C19_WitnessLoad ==
    \E call \in lastCall :
        /\ call.storeFailed /\ call.kind = "constructor"
        /\ storedFibonacci # <<>> /\ storedTrendlines # <<>>

\* The calls of the model's interface that C20 names.
PublicMutators ==
    {"addTrendline", "removeTrendline", "updateTrendline",
     "addFibonacci", "removeFibonacci", "updateFibonacci",
     "setCurrentSymbol", "addPane", "deletePaneById", "removePane", "swapPanes"}

ChartState == <<currentSymbol, trendlinesBySymbol, fibonacciBySymbol, panes, paneDataMap>>

\* C20: a call of a public mutator that changes the chart's state has, when it
\* ends, handed a mask to the invalidate handler: a full mask is pending and a
\* frame is scheduled.
C20_MutatorsInvalidate ==
    [][\A call \in lastCall' :
           call.kind \in PublicMutators /\ ChartState' # ChartState =>
               /\ invalidateMask' = {LevelFull}
               /\ drawPlanned' /\ rafQueue' > 0]_vars

\* A mutator has changed a chart that had no mask pending: two panes were
\* swapped, and this one call left a full mask.
C20_Witness ==
    \E call \in lastCall :
        /\ call.kind = "swapPanes" /\ ~thrown
        /\ PaneCount(St) = MaxPanes /\ panes[1].id # 0
        /\ invalidateMask = {LevelFull} /\ invSinceFrame = 1

\* The model's own state: what a call on the model can change.
ModelState ==
    <<currentSymbol, trendlinesBySymbol, fibonacciBySymbol, panes, paneDataMap,
      nextPaneId, scaleOptions>>

\* C21: a call of applyPriceScaleOptions, deletePaneById or removePane with a
\* pane index that is not below the pane count throws in a development build;
\* in a production build it throws nothing, changes no model state and hands no
\* mask to the invalidate handler.
C21_PaneIndexOutOfRange ==
    [][\A call \in lastCall' :
           /\ call.kind \in {"applyPriceScaleOptions", "deletePaneById", "removePane"}
           /\ call.id >= PaneCount(St)
           => IF development
              THEN thrown'
              ELSE /\ ~thrown'
                   /\ ModelState' = ModelState
                   /\ invalidateMask' = invalidateMask
                   /\ invSinceFrame' = invSinceFrame]_vars

\* C23: after setVisibleRange on a price scale that exists, auto-scale was
\* already off when the custom range was handed to the scale, and the scale's
\* autoScale option is false when the call has returned, with the range set.
C23_AutoScaleOffBeforeRange ==
    \A call \in lastCall :
        call.kind = "setVisibleRange" =>
            \A data \in call.data :
                \A priceScale \in FindPriceScale(St, data.scale, call.id) :
                    /\ ~thrown
                    /\ data.autoScaleAtRange = {FALSE}
                    /\ priceScale.autoScale = FALSE
                    /\ priceScale.customRange = {data.range}

\* setVisibleRange has returned on a second pane whose scale was auto-scaling
\* under chart options that had already switched auto-scale off and on again.
C23_Witness ==
    \E call \in lastCall :
        /\ call.kind = "setVisibleRange" /\ call.id = 1 /\ ~thrown
        /\ \E data \in call.data :
               /\ data.scale = "right"
               /\ \E priceScale \in FindPriceScale(St, data.scale, call.id) :
                      priceScale.customRange = {data.range}
        /\ panes[1].priceScales["right"].autoScale

\* The time-scale invalidations of a mask, as a set.
OpsOf(mask) == {mask.ops[i] : i \in 1..Len(mask.ops)}

\* The animations among them that are not finished at `time`.
UnfinishedOf(mask, time) ==
    {op \in OpsOf(mask) : op.type = "Animation" /\ ~Finished(op.value, time)}

\* C22: after ChartWidget.destroy() no frame callback performs a draw, whatever
\* happens later, the completion of the constructor's annotation load included.
C22_NoDrawAfterDestroy == \A d \in lastDraw : ~d.destroyed

\* C24: every mask handed to the invalidate handler is painted by exactly one
\* draw: while it is part of the pending mask it has not been painted, and once
\* it has left the pending mask it has been painted once, never twice and never
\* not at all, masks that arrive during a frame's or a screenshot's draw included.
C24_EachMaskDrawnOnce ==
    \A id \in MaskIds :
        id < nextMaskId =>
            paintedTimes[id] = IF id \in pendingIds THEN 0 ELSE 1

C24_Witness ==
    \E d \in lastDraw :
        /\ d.by = "screenshot" /\ d.reentrant # {}
        /\ \E id \in MaskIds : id < nextMaskId /\ id \notin d.did.painted.ids
                                 /\ paintedTimes[id] = 1
        /\ \A id \in d.did.painted.ids : paintedTimes[id] = 1
        /\ Val(d.reentrant).ids \subseteq d.did.painted.ids

\* The fields of the time scale an operation writes when replayed at `time`.
Targets(op, time) ==
    CASE op.type = "ApplyBarSpacing" -> {"barSpacing"}
      [] op.type = "ApplyRightOffset" -> {"rightOffset"}
      [] op.type = "Animation" ->
             IF Finished(op.value, time) THEN {} ELSE {"rightOffset"}
      [] OTHER -> {"barSpacing", "rightOffset"}

\* C25: a frame leaves each field of the time scale at the value of the
\* latest-recorded operation, among those of the mask it painted, that writes
\* the field, also when that mask was merged from a mask that arrived during
\* the draw.
C25_LaterOperationWins ==
    \A d \in lastDraw :
        d.by = "frame" =>
            \A field \in {"barSpacing", "rightOffset"} :
                LET ops == {op \in OpsOf(d.did.painted) : field \in Targets(op, d.time)}
                IN ops # {} =>
                       LET last == CHOOSE op \in ops : \A o \in ops : o.seq <= op.seq
                       IN d.after[field] =
                              ApplyTimeScaleInvalidation(d.before, last, d.time)[field]

\* C26: a draw of a Light or Full mask during whose update steps a Full mask
\* becomes pending merges that mask, runs GUI sync, auto-scale and replay one
\* more time and no more, paints the merged mask, and leaves nothing of what it
\* painted pending for the frame the arriving mask has requested.
C26_PostponedFullMerged ==
    \A d \in lastDraw :
        /\ d.mask.level \in {LevelLight, LevelFull}
        /\ d.reentrant # {}
        /\ Val(d.reentrant).level = LevelFull
        => /\ d.did.redone
           /\ d.did.guiSyncs = (IF d.mask.level = LevelFull THEN 1 ELSE 0) + 1
           /\ d.did.autoScales = 2 /\ d.did.replays = 2
           /\ d.did.painted.level = LevelFull
           /\ d.mask.ids \cup Val(d.reentrant).ids \subseteq d.did.painted.ids
           /\ OpsOf(d.did.painted) = OpsOf(d.mask) \cup OpsOf(Val(d.reentrant))
           /\ \A left \in d.left : left.ids \cap d.did.painted.ids = {}
           /\ \A id \in d.did.painted.ids : paintedTimes[id] = 1

C26_Witness ==
    \E d \in lastDraw :
        /\ d.by = "frame" /\ d.mask.level = LevelLight /\ d.mask.ops # <<>>
        /\ d.reentrant # {} /\ Val(d.reentrant).level = LevelFull
        /\ d.did.redone /\ rafQueue > 0 /\ invalidateMask = {}

\* C27: when the frame just run has drawn a mask with an animation that was
\* not finished and has scheduled the next frame for it, the animation stays
\* with a scheduled frame for as long as it is not finished.
C27_AnimationKeepsFrames ==
    [][\A d \in lastDraw :
           d.by = "frame" /\ d.rearmed =>
               \A op \in UnfinishedOf(d.mask, d.time) :
                   \/ Finished(op.value, now')
                   \/ /\ rafQueue' > 0
                      /\ \E i \in 1..Len(pendingOps') :
                             /\ pendingOps'[i].type = "Animation"
                             /\ pendingOps'[i].value = op.value]_vars

\* C28: the completion of the load started by the constructor leaves every
\* trendline that is in memory at that moment in its symbol's set, unchanged.
C28_LoadKeepsMemory ==
    [][pendingLoad # {} /\ pendingLoad' = {} /\ lastCall' = {} =>
           \A sym \in Symbols :
               trendlinesBySymbol[sym] \subseteq trendlinesBySymbol'[sym]]_vars

\* C29: deletePaneById(i) with 1 <= i < pane count removes the pane at index i,
\* with the series it holds, and nothing else: the other panes keep their
\* series and their order; deletePaneById(0) changes nothing.
C29_DeletesThatPane ==
    [][\A call \in lastCall' :
           call.kind = "deletePaneById" =>
               /\ call.id >= 1 /\ call.id < PaneCount(St) =>
                      ~thrown' /\ panes' = SpliceOne(panes, call.id)
               /\ call.id = 0 => panes' = panes /\ paneDataMap' = paneDataMap]_vars

\* C30: a pointer move without a button pressed that follows a mouse-up moves
\* no anchor of any trendline or Fibonacci retracement.
C30_NoDragAfterMouseUp ==
    [][/\ \E i \in lastInput : i.kind = "mouseUp"
       /\ \E i \in lastInput' : i.kind = "mouseMove"
       => /\ trendlinesBySymbol' = trendlinesBySymbol
          /\ fibonacciBySymbol' = fibonacciBySymbol]_vars

\* C31: while a trendline drag or a Fibonacci drag is in progress, a move of
\* the pointer with the button pressed scrolls neither scale: it starts no
\* scroll and leaves the scroll position of the time scale as it is.
C31_DragNeverScrolls ==
    [][/\ \E i \in lastInput' : i.kind = "pressedMouseMove"
       /\ trendlineSelection.dragState # {} \/ fibonacciSelection.dragState # {}
       => /\ isScrolling' = isScrolling
          /\ timeScroll' = timeScroll]_vars

\* C32: a pointer event acts on the annotations of the current symbol only: it
\* changes no annotation of another symbol, and an annotation it selects is an
\* annotation of the current symbol, also when the event arrives after
\* setCurrentSymbol and before the next frame.
C32_ActsOnCurrentSymbol ==
    [][lastInput' # {} =>
         /\ \A symbol \in Symbols \ {currentSymbol} :
                /\ trendlinesBySymbol'[symbol] = trendlinesBySymbol[symbol]
                /\ fibonacciBySymbol'[symbol] = fibonacciBySymbol[symbol]
         /\ trendlineSelection'.selectedId # trendlineSelection.selectedId =>
                \A id \in trendlineSelection'.selectedId :
                    MapGet(trendlinesBySymbol[currentSymbol], id) # {}
         /\ fibonacciSelection'.selectedId # fibonacciSelection.selectedId =>
                \A id \in fibonacciSelection'.selectedId :
                    MapGet(fibonacciBySymbol[currentSymbol], id) # {}]_vars

\* Two fractions num / den with the same value.
SamePrice(p, q) == p.num * q.den = q.num * p.den

\* C33: every render of a committed Fibonacci retracement draws exactly the
\* level prices that calculateLevels() returns for the levels option of the
\* retracement and its current anchors: as many levels, with the same prices.
C33_DrawnAsCalculated ==
    \A l \in levels :
        "options" \in DOMAIN l =>
            /\ Len(l.renderer) = Len(l.model)
            /\ \A i \in DOMAIN l.renderer : SamePrice(l.renderer[i].price, l.model[i].price)

\* A frame that draws at Full level: the callback consumes a pending Full mask.
FullDraw == invalidateMask = {LevelFull} /\ rafQueue' = rafQueue - 1

\* C34: after a draw at Full level there are as many pane widgets as model
\* panes, widget i is bound to model pane i, and there are max(0, panes - 1)
\* separators, whatever additions, removals and swaps of panes came before.
C34_GuiSyncedAfterFullDraw ==
    [][FullDraw =>
         /\ Len(paneWidgets') = Len(panes')
         /\ \A i \in DOMAIN panes' : paneWidgets'[i] = panes'[i].id
         /\ paneSeparators' = Max(0, Len(panes') - 1)]_vars

\* A Full draw has just run on a chart whose two panes were swapped, or on a
\* chart that lost a pane, since the frame before.
C34_Witness ==
    /\ rafQueue = 0 /\ invalidateMask = {}
    /\ Len(panes) = 2 /\ panes[1].id > panes[2].id
    /\ paneWidgets = <<panes[1].id, panes[2].id>>
    /\ paneSeparators = 1

\* C35: from the construction of the model to its destruction the model has at
\* least one pane, after every sequence of addPane, deletePaneById, removePane,
\* swapPanes, removeSeries and moveSeriesToPane.
C35_AtLeastOnePane == ~destroyed => Len(panes) >= 1

\* The last series of the chart has just been removed and a pane is left, on
\* a chart that had a second pane before.
C35_Witness ==
    /\ \E call \in lastCall : call.kind = "removeSeries"
    /\ Serieses(St) = {} /\ Len(panes) = 1 /\ nextPaneId > 1 /\ ~thrown

\* The highest of a non-empty set of levels.
Highest(ls) == CHOOSE l \in ls : \A m \in ls : m <= l

\* C36: whatever masks were submitted since the last frame and in whatever
\* order, the pending mask gives every pane the highest of the levels the
\* submitted masks give it, and the OR of their autoScale flags.
C36_PendingIsMaxAndOr ==
    submitted # {} =>
        /\ invalidateMask # {}
        /\ \A i \in PaneIndices :
               LET pending == InvalidateForPane(Val(PendingPaneMask(St)), i)
               IN /\ pending.level =
                         Highest({InvalidateForPane(m, i).level : m \in submitted})
                  /\ pending.autoScale =
                         (\E m \in submitted : InvalidateForPane(m, i).autoScale)

\* Three masks are merged: a cursor update, the mask of pane 0 and the mask
\* of a created pane 1.
C36_Witness ==
    /\ {PaneMask(LevelCursor, NoPanes), PaneInvalidationMask(0, LevelLight),
        GetOrCreatePaneMask(1)} \subseteq submitted
    /\ InvalidateForPane(Val(PendingPaneMask(St)), 1).autoScale
    /\ ~InvalidateForPane(Val(PendingPaneMask(St)), 0).autoScale

\* C37: a frame repaints a pane only if the level of the pane in the mask the
\* frame consumed is above None; with no mask to consume, or with level None,
\* nothing of the pane is painted.
C37_RepaintedOnlyAboveNone ==
    \A p \in lastPaint :
        \A i \in DOMAIN p.repainted :
            p.repainted[i].main \/ p.repainted[i].top =>
                /\ p.consumed # {}
                /\ InvalidateForPane(Val(p.consumed), i - 1).level > LevelNone

\* A frame has consumed a cursor-level mask on a chart with two panes or more
\* and has repainted the top canvas of every pane.
C37_Witness ==
    \E p \in lastPaint :
        /\ p.consumed # {} /\ Val(p.consumed).level = LevelCursor
        /\ Len(p.repainted) >= 2
        /\ \A i \in DOMAIN p.repainted : p.repainted[i].top /\ ~p.repainted[i].main

C38_WitnessTrendline ==
    /\ \E i \in lastInput : i.kind = "mouseMove" /\ i.anchor /\ i.tool = "trendline"
    /\ \E end \in mTrendlinePreviewEnd : end.x = 20 /\ end.y = 51
    /\ invalidateMask = {LevelLight}

\* -------------------------------------------------- the crosshair pane view
\* CrosshairPaneView.update(): the next renderer() call recomputes the data.
CrosshairPaneViewUpdate(s) == [s EXCEPT !.crosshairView.invalidated = TRUE]

\* An _updateImpl whose centre-dot branch leaves the guide lines as the
\* crosshair's visibility has them.
UpdateImplKeepLines(s, visible, horzLineVisible, vertLineVisible) ==
    LET v == s.crosshairView
        read == {[mode |-> s.crosshairMode, showCenterDot |-> s.showCenterDot]}
    IN IF s.crosshairMode = CrosshairModeHidden
       THEN [s EXCEPT !.crosshairView =
                [v EXCEPT !.horzLine = FALSE, !.vertLine = FALSE,
                          !.showCenterDot = FALSE, !.updatedIn = read]]
       ELSE [s EXCEPT !.crosshairView =
                [v EXCEPT !.horzLine = visible /\ horzLineVisible,
                          !.vertLine = visible /\ vertLineVisible,
                          !.showCenterDot = s.showCenterDot,
                          !.updatedIn = read]]

\* CrosshairPaneView._updateImpl. visible is source.visible(),
\* horzLineVisible is source.horzLineVisible(pane), vertLineVisible is
\* source.vertLineVisible().
UpdateImpl(s, visible, horzLineVisible, vertLineVisible) ==
    LET v == s.crosshairView
        read == {[mode |-> s.crosshairMode, showCenterDot |-> s.showCenterDot]}
    IN IF s.crosshairMode = CrosshairModeHidden
       THEN [s EXCEPT !.crosshairView =
                [v EXCEPT !.horzLine = FALSE, !.vertLine = FALSE,
                          !.showCenterDot = FALSE, !.updatedIn = read]]
       ELSE IF s.showCenterDot
       THEN [s EXCEPT !.crosshairView =
                [v EXCEPT !.horzLine = FALSE, !.vertLine = FALSE,
                          !.showCenterDot = TRUE, !.updatedIn = read]]
       ELSE [s EXCEPT !.crosshairView =
                [v EXCEPT !.horzLine = visible /\ horzLineVisible,
                          !.vertLine = visible /\ vertLineVisible,
                          !.showCenterDot = FALSE, !.updatedIn = read]]

\* CrosshairPaneView.renderer(pane): update the data when invalidated.
CrosshairPaneViewRenderer(s, visible, horzLineVisible, vertLineVisible) ==
    IF s.crosshairView.invalidated
    THEN [UpdateImpl(s, visible, horzLineVisible, vertLineVisible)
             EXCEPT !.crosshairView.invalidated = FALSE]
    ELSE s

\* CrosshairRenderer._drawImpl over the view's data: what it puts on the
\* canvas. hasValidCoordinates: x and y are finite numbers; xOnCanvas and
\* yOnCanvas: the rounded bitmap coordinate is >= 0. The data's x and y are
\* always of type number, so the centre dot is drawn whenever it is asked for.
CrosshairRendererDrawImpl(s, hasValidCoordinates, xOnCanvas, yOnCanvas) ==
    LET v == s.crosshairView
        drawn ==
            IF v.showCenterDot
            THEN [dot |-> TRUE, vertLine |-> FALSE, horzLine |-> FALSE]
            ELSE IF ~v.vertLine /\ ~v.horzLine THEN NothingDrawn
            ELSE IF ~hasValidCoordinates THEN NothingDrawn
            ELSE [dot |-> FALSE,
                  vertLine |-> v.vertLine /\ xOnCanvas,
                  horzLine |-> v.horzLine /\ yOnCanvas]
    IN [s EXCEPT !.crosshairView.drawn = drawn]

\* Crosshair.updateAllViews(): the crosshair invalidates its pane view.
CrosshairUpdateAllViews ==
    /\ ~destroyed
    /\ ~crosshairView.invalidated
    /\ Set(CrosshairPaneViewUpdate(St))
    /\ lastInput' = {}
    /\ UNCHANGED <<timeScale, firstValue, now, extrapolated, hit>>
    /\ UNCHANGED hostVars /\ UNCHANGED drawVars /\ lastDraw' = {} /\ lastCall' = {}

\* The pane draws the crosshair: it asks the view for its renderer and
\* draws it.
PaneDrawCrosshair ==
    /\ ~destroyed
    /\ \E visible, horzLineVisible, vertLineVisible \in BOOLEAN :
       \E hasValidCoordinates, xOnCanvas, yOnCanvas \in BOOLEAN :
           Set(CrosshairRendererDrawImpl(
                   CrosshairPaneViewRenderer(St, visible, horzLineVisible,
                                             vertLineVisible),
                   hasValidCoordinates, xOnCanvas, yOnCanvas))
    /\ lastInput' = {}
    /\ UNCHANGED <<timeScale, firstValue, now, extrapolated, hit>>
    /\ UNCHANGED hostVars /\ UNCHANGED drawVars /\ lastDraw' = {} /\ lastCall' = {}

\* The host application sets options.crosshair.mode to Hidden.
HostHideCrosshair ==
    /\ ~destroyed
    /\ crosshairMode # CrosshairModeHidden
    /\ Set(ApplyCrosshairMode(St, CrosshairModeHidden))
    /\ lastInput' = {}
    /\ UNCHANGED <<timeScale, firstValue, now, extrapolated, hit>>
    /\ UNCHANGED hostVars /\ UNCHANGED drawVars /\ lastDraw' = {} /\ lastCall' = {}

NextCrosshair ==
    \/ PressTrendlineButton
    \/ PressFibonacciButton
    \/ HostSetCrosshairMode
    \/ HostHideCrosshair
    \/ CrosshairUpdateAllViews
    \/ PaneDrawCrosshair

SpecCrosshair == InitTool /\ [][NextCrosshair]_vars

\* C39: after every CrosshairPaneView update the renderer data never shows
\* the centre dot together with a visible guide line: an update made in
\* centre-dot mode hides both guide lines and only the dot is drawn, and an
\* update made in Hidden mode leaves neither the guide lines nor the dot.
C39_DotExcludesGuideLines ==
    LET v == crosshairView
    IN /\ ~(v.showCenterDot /\ (v.vertLine \/ v.horzLine))
       /\ ~(v.drawn.dot /\ (v.drawn.vertLine \/ v.drawn.horzLine))
       /\ \A r \in v.updatedIn :
              /\ r.mode = CrosshairModeHidden =>
                     /\ ~v.vertLine /\ ~v.horzLine /\ ~v.showCenterDot
                     /\ v.drawn = NothingDrawn
              /\ r.mode # CrosshairModeHidden /\ r.showCenterDot =>
                     /\ ~v.vertLine /\ ~v.horzLine /\ v.showCenterDot
                     /\ v.drawn = [dot |-> TRUE, vertLine |-> FALSE,
                                   horzLine |-> FALSE]

\* An update read the centre-dot flag in a displayed mode and the dot was
\* drawn; the view has been invalidated again since.
C39_Witness ==
    /\ crosshairView.updatedIn =
           {[mode |-> CrosshairModeNormal, showCenterDot |-> TRUE]}
    /\ crosshairView.drawn.dot
    /\ crosshairView.invalidated

\* An update made in Hidden mode while a drawing tool asks for the dot.
C39_WitnessHidden ==
    /\ crosshairView.updatedIn =
           {[mode |-> CrosshairModeHidden, showCenterDot |-> TRUE]}
    /\ ~crosshairView.invalidated

\* C40: on a time scale with two or more points at distinct coordinates, the
\* time a click at pixel x beyond the last bar resolves to by extrapolation is
\* converted back to pixel x by the pane's time-to-coordinate conversion on
\* the same time scale.
C40_ExtrapolatedAnchorProjectsBack ==
    \A e \in extrapolated :
        (/\ Len(timeScale.points) >= 2
         /\ IndexToCoordinate(timeScale, BaseIndex(timeScale))
                # IndexToCoordinate(timeScale, BaseIndex(timeScale) - 1)
         /\ ClickIsBeyondData(timeScale, e.x)) =>
            /\ e.click = ExtrapolateTimeFromCoordinate(timeScale, e.x, now)
            /\ e.back # {}
            /\ Val(e.back).x = e.x

\* A click four pixels beyond the last of two bars drawn ten pixels apart
\* resolves to a time after the last bar and is projected back to its pixel.
C40_Witness ==
    /\ Len(timeScale.points) = 2 /\ timeScale.barSpacing = 10
    /\ \E e \in extrapolated :
           /\ ClickIsBeyondData(timeScale, e.x)
           /\ e.x - Val(IndexToCoordinate(timeScale, 1)) = 4
           /\ e.click > timeScale.points[2]
           /\ e.back # {} /\ Val(e.back).x = e.x
====
